---- MODULE Spec2Model ----
(***************************************************************************)
(* httptesting: a fluent helper that builds an HTTP request, dispatches it *)
(* synchronously against an in-process http.Handler, and asserts on the    *)
(* response.  The model follows the Httptester struct: the tester `ht`     *)
(* carries the failure reporter t, the State and the requestExecuted flag. *)
(* Every method of Httptester is an operator from a tester value to the    *)
(* tester value the method leaves behind; every public method is an action *)
(* of the state machine.                                                   *)
(*                                                                         *)
(* Conventions                                                             *)
(*   - a Go nil pointer / nil interface is the record Nil;                 *)
(*   - a Go string made of several parts (a URL) is a sequence of tokens,  *)
(*     so that url.Parse and URL.String are computed, not assumed;         *)
(*   - Fatalf never returns (testing.T runs Goexit, the mock panics): the  *)
(*     operation stops at the Fatalf and the tester is not used again;     *)
(*   - a nil-pointer dereference is a Go run-time panic: the operation     *)
(*     stops there and the tester is not used again.                       *)
(***************************************************************************)
EXTENDS Integers, Sequences, FiniteSets, TLC

VARIABLES
    ht,     \* the Httptester: [t, state, requestExecuted]
    op,     \* the call that produced the current state, with what it passed to
            \* its collaborators (closure, handler) and how it ended
    everExecuted,  \* whether Execute has been called on this tester
    inputs, \* the arguments, closures and handler this test case uses
    addedCookies,  \* the cookies (name, value) handed to AddCookie so far, in
                   \* the test case that keeps this record
    servedLog,     \* in the same test case, what the last Execute served
                   \* (last) and, while the last call is an Execute, what the
                   \* Execute before it served (prev)
    two     \* two testers made by two New calls and driven in any interleaving

vars == <<ht, op, everExecuted, inputs, addedCookies, servedLog, two>>

Nil == [nil |-> TRUE]

----------------------------------------------------------------------------
(* Bounds *)

\* AddCookie calls accepted on one pending request
MaxCookies == 1
\* cookies one handler response sets
MaxRespCookies == 1

----------------------------------------------------------------------------
(* Values the sampled arguments are built from *)

\* io.Reader arguments: a plain reader (strings.NewReader) and a ReadCloser
PlainReader(data) == [data |-> data, closer |-> FALSE, nop |-> FALSE]

ReadCloser(data) == [data |-> data, closer |-> TRUE, nop |-> FALSE]

Keys == {"k", "id"}

Vals == {"v1", "v2"}

\* the bytes of {"value": v}
JsonBody(v) == <<"{", "value", ":", v, "}">>

\* sequences over S of length at most n
RECURSIVE SeqsUpTo(_, _)
SeqsUpTo(S, n) ==
    IF n = 0 THEN { <<>> }
    ELSE SeqsUpTo(S, n - 1) \cup
         { Append(q, x) : q \in { r \in SeqsUpTo(S, n - 1) : Len(r) = n - 1 }, x \in S }

----------------------------------------------------------------------------
(* Library functions the tester calls *)

\* position of the first occurrence of c in s, 0 when there is none
IndexOf(s, c) ==
    IF \E i \in 1..Len(s) : s[i] = c
    THEN CHOOSE i \in 1..Len(s) : s[i] = c /\ \A j \in 1..(i - 1) : s[j] # c
    ELSE 0

\* net/url.Parse on the sampled shapes: a leading ":" is "missing protocol
\* scheme"; otherwise the raw URL is cut at the first "?"
Parse(rawURL) ==
    IF rawURL # <<>> /\ rawURL[1] = ":"
    THEN [url |-> Nil, err |-> "missing protocol scheme"]
    ELSE LET q == IndexOf(rawURL, "?")
         IN  [url |-> [Path     |-> IF q = 0 THEN rawURL ELSE SubSeq(rawURL, 1, q - 1),
                       RawQuery |-> IF q = 0 THEN <<>>
                                    ELSE SubSeq(rawURL, q + 1, Len(rawURL))],
              err |-> ""]

\* (*url.URL).String
URLString(u) ==
    u.Path \o (IF u.RawQuery = <<>> THEN <<>> ELSE <<"?">> \o u.RawQuery)

\* textproto.CanonicalMIMEHeaderKey on the sampled names
CanonicalMIMEHeaderKey(k) == IF k = "x-h" THEN "X-H" ELSE k

EmptyHeader == [x \in {} |-> <<>>]

\* http.Header.Set: replaces the values under the canonical key
HeaderSet(hd, key, value) ==
    LET ck == CanonicalMIMEHeaderKey(key)
    IN  [x \in (DOMAIN hd) \cup {ck} |-> IF x = ck THEN <<value>> ELSE hd[x]]

\* http.Header.Add: appends to the values under the canonical key
HeaderAdd(hd, key, value) ==
    LET ck == CanonicalMIMEHeaderKey(key)
    IN  [x \in (DOMAIN hd) \cup {ck} |->
            IF x = ck THEN (IF ck \in DOMAIN hd THEN hd[ck] ELSE <<>>) \o <<value>>
            ELSE hd[x]]

\* http.Header.Get: first value under the canonical key, "" when absent
HeaderGet(hd, key) ==
    LET ck == CanonicalMIMEHeaderKey(key)
    IN  IF ck \in DOMAIN hd /\ hd[ck] # <<>> THEN hd[ck][1] ELSE ""

\* (*http.Request).AddCookie: appends name=value to the Cookie header line;
\* the cookie's attributes (Path, ...) are not sent
RequestAddCookie(req, cookie) ==
    [req EXCEPT !.Cookie = Append(@, [Name |-> cookie.Name, Value |-> cookie.Value])]

\* http.NewRequest(http.MethodGet, "/", nil)
DefaultRequest ==
    [Method |-> "GET", URL |-> Parse(<<"/">>).url, Body |-> Nil,
     Header |-> EmptyHeader, Cookie |-> <<>>]

\* io.NopCloser
NopCloser(reader) == [data |-> reader.data, closer |-> TRUE, nop |-> TRUE]

\* a map write that starts from an empty map
MapSet_Fresh(m, key, value) == [x \in {key} |-> value]

\* Go map write m[key] = value
MapSet(m, key, value) ==
    [x \in (DOMAIN m) \cup {key} |-> IF x = key THEN value ELSE m[x]]

\* Go map read m[key] formatted with fmt.Sprint; a missing key reads as nil
MapGet(m, key) == IF key \in DOMAIN m THEN m[key] ELSE "<nil>"

----------------------------------------------------------------------------
(* Failure reporter, run-time panics *)

\* TestingT.Fatalf: records the failure; the caller stops at this point
Fatalf(h, format, args) ==
    [h EXCEPT !.t = [fatalCalled |-> TRUE, msg |-> [format |-> format, args |-> args]]]

\* a nil-pointer dereference: the call stops at this point, the tester is
\* left as it was when the dereference was attempted
Panic(h) == [h EXCEPT !.panicked = TRUE]

----------------------------------------------------------------------------
(* Request builder *)

New ==
    [t               |-> [fatalCalled |-> FALSE, msg |-> Nil],
     state           |-> [Request |-> Nil, Response |-> Nil, ResponseResult |-> Nil,
                          Values |-> [x \in {} |-> ""]],
     requestExecuted |-> FALSE,
     panicked        |-> FALSE]

\* getRequest that starts the new request by dropping the previous response
getRequest_ClearsResponse(h) ==
    [h EXCEPT !.requestExecuted = FALSE,
              !.state.ResponseResult = Nil,
              !.state.Response = Nil,
              !.state.Request = IF @ = Nil THEN DefaultRequest ELSE @]

\* getRequest that forgets to reset ResponseResult
getRequest_KeepsResult(h) ==
    [h EXCEPT !.requestExecuted = FALSE,
              !.state.Request = IF @ = Nil THEN DefaultRequest ELSE @]

\* getRequest that builds a new default request on every call
getRequest_AlwaysFresh(h) ==
    [h EXCEPT !.requestExecuted = FALSE,
              !.state.ResponseResult = Nil,
              !.state.Request = DefaultRequest]

getRequest(h) ==
    [h EXCEPT !.requestExecuted = FALSE,
              !.state.ResponseResult = Nil,
              !.state.Request = IF @ = Nil THEN DefaultRequest ELSE @]

\* setBodyReader without the reader != nil test: nil is wrapped too
setBodyReader_WrapsNil(h, reader) ==
    LET ok == reader # Nil /\ reader.closer
        rc == IF ok THEN reader
              ELSE [data |-> IF reader = Nil THEN <<>> ELSE reader.data,
                    closer |-> TRUE, nop |-> TRUE]
    IN  [getRequest(h) EXCEPT !.state.Request.Body = rc]

setBodyReader(h, reader) ==
    LET ok == reader # Nil /\ reader.closer
        rc == IF ok THEN reader
              ELSE IF reader # Nil THEN NopCloser(reader) ELSE Nil
    IN  [getRequest(h) EXCEPT !.state.Request.Body = rc]

\* NewRequest that drops the error of url.Parse and goes on to the body
NewRequest_IgnoresError(h, method, url, reader) ==
    LET p  == Parse(url)
        h1 == [getRequest(h) EXCEPT !.state.Request.Method = method,
                                    !.state.Request.URL = p.url]
    IN  setBodyReader(h1, reader)

\* NewRequest that replaces the pending request by a new one
NewRequest_Replaces(h, method, url, reader) ==
    LET p  == Parse(url)
        h1 == [getRequest(h) EXCEPT !.state.Request =
                   [DefaultRequest EXCEPT !.Method = method, !.URL = p.url]]
    IN  IF p.err # "" THEN Fatalf(h1, p.err, <<>>)
        ELSE setBodyReader(h1, reader)

NewRequest(h, method, url, reader) ==
    LET p  == Parse(url)
        h1 == [getRequest(h) EXCEPT !.state.Request.Method = method,
                                    !.state.Request.URL = p.url]
    IN  IF p.err # "" THEN Fatalf(h1, p.err, <<>>)
        ELSE setBodyReader(h1, reader)

Get(h, url) == NewRequest(h, "GET", url, Nil)

Post(h, url, reader) == NewRequest(h, "POST", url, reader)

Put(h, url, reader) == NewRequest(h, "PUT", url, reader)

Patch(h, url, reader) == NewRequest(h, "PATCH", url, reader)

\* Delete that passes the wrong method
Delete_AsGet(h, url) == NewRequest(h, "GET", url, Nil)

Delete(h, url) == NewRequest(h, "DELETE", url, Nil)

SetBody(h, reader) == setBodyReader(h, reader)

\* AddHeader that leaves requestExecuted as it found it
AddHeader_NoReset(h, key, value) ==
    [getRequest(h) EXCEPT !.state.Request.Header = HeaderSet(@, key, value),
                          !.requestExecuted = h.requestExecuted]

AddHeader(h, key, value) ==
    [getRequest(h) EXCEPT !.state.Request.Header = HeaderSet(@, key, value)]

AddCookie(h, cookie) ==
    [getRequest(h) EXCEPT !.state.Request = RequestAddCookie(@, cookie)]

\* SetValue that keeps the first value written under a key
SetValue_KeepsFirst(h, key, value) ==
    IF key \in DOMAIN h.state.Values THEN h
    ELSE [h EXCEPT !.state.Values = MapSet(@, key, value)]

\* SetValue that goes through getRequest like the request mutators
SetValue_StartsRequest(h, key, value) ==
    [getRequest(h) EXCEPT !.state.Values = MapSet(@, key, value)]

SetValue(h, key, value) ==
    [h EXCEPT !.state.Values = MapSet(@, key, value)]

\* util.EncodeJSON (json.Marshal): a channel has no JSON encoding
EncodeJSON(body) ==
    IF body.type = "chan"
    THEN [bytes |-> <<>>, err |-> "json: unsupported type: chan string"]
    ELSE [bytes |-> JsonBody(body.Value), err |-> ""]

\* SetRequestBodyJSON that goes on to set the body after an encoding error
SetRequestBodyJSON_IgnoresError(h, body) ==
    setBodyReader(h, PlainReader(EncodeJSON(body).bytes))

\* SetRequestBodyJSON that obtains the pending request before it encodes
SetRequestBodyJSON_RequestFirst(h, body) ==
    LET e == EncodeJSON(body)
    IN  IF e.err # "" THEN Fatalf(getRequest(h), "Error encoding request body: %s", <<e.err>>)
        ELSE setBodyReader(h, PlainReader(e.bytes))

SetRequestBodyJSON(h, body) ==
    LET e == EncodeJSON(body)
    IN  IF e.err # "" THEN Fatalf(h, "Error encoding request body: %s", <<e.err>>)
        ELSE setBodyReader(h, PlainReader(e.bytes))

----------------------------------------------------------------------------
(* State-aware variants.  A closure is named by what it computes from the  *)
(* State it is handed; the samples follow the closures of the tests and of *)
(* the README (a URL built from Values, from the decoded ResponseResult).  *)

\* the decoded body as a closure reads it (s.ResponseResult.(*testStruct).Value)
ResultValue(s) ==
    IF s.ResponseResult # Nil /\ s.ResponseResult.type = "*testStruct"
    THEN s.ResponseResult.Value ELSE "<nil>"

\* url closures: a constant, "/" + Values["id"], "/" + the decoded value,
\* and one whose result url.Parse rejects
ApplyUrlFn(f, s) ==
    CASE f = "urlConst"      -> <<"/", "get">>
      [] f = "urlFromValue"  -> <<"/", MapGet(s.Values, "id")>>
      [] f = "urlFromResult" -> <<"/", ResultValue(s)>>
      [] f = "urlBad"        -> <<":">>

\* reader closures: no body, or a reader over Values["k"]
ApplyReaderFn(f, s) ==
    CASE f = "readerNil"       -> Nil
      [] f = "readerFromValue" -> PlainReader(<<MapGet(s.Values, "k")>>)

\* header closures: (key, value)
ApplyHeaderFn(f, s) ==
    CASE f = "headerConst"     -> <<"X-H", "v1">>
      [] f = "headerFromValue" -> <<"x-h", MapGet(s.Values, "k")>>

\* cookie closures
ApplyCookieFn(f, s) ==
    CASE f = "cookieConst"     -> [Name |-> "C", Value |-> "v1", Path |-> ""]
      [] f = "cookieFromValue" -> [Name |-> "C", Value |-> MapGet(s.Values, "k"), Path |-> "/p"]

\* value closures: (key, value)
ApplyValueFn(f, s) ==
    CASE f = "valueConst"  -> <<"k", "v1">>
      [] f = "copyValue"   -> <<"id", MapGet(s.Values, "k")>>
      [] f = "resultValue" -> <<"id", ResultValue(s)>>

NewRequestWithState(h, f) ==
    NewRequest(h, f.method, ApplyUrlFn(f.url, h.state), ApplyReaderFn(f.reader, h.state))

\* GetWithState that hands the closure the State after the request was reset
GetWithState_Late(h, f) == Get(h, ApplyUrlFn(f, getRequest(h).state))

GetWithState(h, f) == Get(h, ApplyUrlFn(f, h.state))

PostWithState(h, f) ==
    Post(h, ApplyUrlFn(f.url, h.state), ApplyReaderFn(f.reader, h.state))

PutWithState(h, f) ==
    Put(h, ApplyUrlFn(f.url, h.state), ApplyReaderFn(f.reader, h.state))

PatchWithState(h, f) ==
    Patch(h, ApplyUrlFn(f.url, h.state), ApplyReaderFn(f.reader, h.state))

DeleteWithState(h, f) == Delete(h, ApplyUrlFn(f, h.state))

SetBodyWithState(h, f) == SetBody(h, ApplyReaderFn(f, h.state))

AddHeaderWithState(h, f) ==
    AddHeader(h, ApplyHeaderFn(f, h.state)[1], ApplyHeaderFn(f, h.state)[2])

AddCookieWithState(h, f) == AddCookie(h, ApplyCookieFn(f, h.state))

SetValueWithState(h, f) ==
    LET key   == ApplyValueFn(f, h.state)[1]
        value == ApplyValueFn(f, h.state)[2]
    IN  [h EXCEPT !.state.Values = MapSet(@, key, value)]


----------------------------------------------------------------------------
(* Execution engine *)

\* http.StatusText, as httptest.ResponseRecorder.Result formats the status line
StatusLine(code) ==
    CASE code = 200 -> "200 OK"
      [] code = 401 -> "401 Unauthorized"

\* httptest.ResponseRecorder.Result for what the handler wrote: w is
\* [Code, SetCookie, Header, Body]
Result(w) ==
    [Status     |-> StatusLine(w.Code),
     StatusCode |-> w.Code,
     Header     |-> w.Header,
     SetCookie  |-> w.SetCookie,
     Body       |-> [data |-> w.Body, closed |-> FALSE]]

\* (*http.Response).Cookies: the cookies of the Set-Cookie lines, in order
Cookies(response) == response.SetCookie

\* the for loop of Execute over the previous response's cookies
RECURSIVE AddCookies(_, _)
AddCookies(req, cookies) ==
    IF cookies = <<>> THEN req
    ELSE AddCookies(RequestAddCookie(req, Head(cookies)), Tail(cookies))

\* Execute without the cookie loop
forwardCookies_None(h) == h

\* the first statement of Execute: the previous response's cookies are added
\* to ht.state.Request; AddCookie on a nil Request dereferences nil
forwardCookies(h) ==
    IF h.state.Response # Nil /\ Cookies(h.state.Response) # <<>>
    THEN IF h.state.Request = Nil THEN Panic(h)
         ELSE [h EXCEPT !.state.Request = AddCookies(@, Cookies(h.state.Response))]
    ELSE h

\* the request handed to handler.ServeHTTP, Nil when Execute does not get there
Served(h) ==
    IF forwardCookies(h).panicked THEN Nil
    ELSE getRequest(forwardCookies(h)).state.Request

\* Execute that leaves the executed request in State.Request
Execute_KeepsRequest(h, w) ==
    IF forwardCookies(h).panicked THEN forwardCookies(h)
    ELSE [getRequest(forwardCookies(h)) EXCEPT !.requestExecuted = TRUE,
                                               !.state.Response = Result(w)]

\* Execute that carries the decoded ResponseResult over to the new response
Execute_KeepsResult(h, w) ==
    IF forwardCookies(h).panicked THEN forwardCookies(h)
    ELSE [getRequest(forwardCookies(h)) EXCEPT !.requestExecuted = TRUE,
                                               !.state.Response = Result(w),
                                               !.state.Request = Nil,
                                               !.state.ResponseResult = h.state.ResponseResult]

\* Execute that starts the next request with the cookies of the served one
Execute_KeepsCookies(h, w) ==
    IF forwardCookies(h).panicked THEN forwardCookies(h)
    ELSE [getRequest(forwardCookies(h)) EXCEPT
              !.requestExecuted = TRUE,
              !.state.Response = Result(w),
              !.state.Request = [DefaultRequest EXCEPT !.Cookie = Served(h).Cookie]]

\* Execute; w is what the handler writes when it is served the request
Execute(h, w) ==
    IF forwardCookies(h).panicked THEN forwardCookies(h)
    ELSE [getRequest(forwardCookies(h)) EXCEPT !.requestExecuted = TRUE,
                                               !.state.Response = Result(w),
                                               !.state.Request = Nil]

----------------------------------------------------------------------------
(* Assertion layer *)

\* assertRequestExecuted without the check
assertRequestExecuted_NoCheck(h) == h

assertRequestExecuted(h) ==
    IF ~h.requestExecuted
    THEN Fatalf(getRequest(h), "Request %q was not executed",
                <<URLString(getRequest(h).state.Request.URL)>>)
    ELSE h

AssertStatus(h, expectedStatus) ==
    LET h1 == assertRequestExecuted(h)
    IN  IF h1.t.fatalCalled THEN h1
        ELSE IF h1.state.Response = Nil THEN Panic(h1)
        ELSE IF h1.state.Response.Status # expectedStatus
        THEN Fatalf(h1, "Expected status %q; got %q",
                    <<h1.state.Response.Status, expectedStatus>>)
        ELSE h1

AssertStatusCode(h, statusCode) ==
    LET h1 == assertRequestExecuted(h)
    IN  IF h1.t.fatalCalled THEN h1
        ELSE IF h1.state.Response = Nil THEN Panic(h1)
        ELSE IF h1.state.Response.StatusCode # statusCode
        THEN Fatalf(h1, "Expected %d; got %d", <<h1.state.Response.StatusCode, statusCode>>)
        ELSE h1

\* AssertHeader that accepts any of the values under the key
AssertHeader_AnyValue(h, key, expectedValue) ==
    LET h1 == assertRequestExecuted(h)
        ck == CanonicalMIMEHeaderKey(key)
        vs == IF ck \in DOMAIN h1.state.Response.Header
              THEN h1.state.Response.Header[ck] ELSE <<"">>
    IN  IF h1.t.fatalCalled THEN h1
        ELSE IF h1.state.Response = Nil THEN Panic(h1)
        ELSE IF \A i \in 1..Len(vs) : vs[i] # expectedValue
        THEN Fatalf(h1, "Expected %q; got %q",
                    <<HeaderGet(h1.state.Response.Header, key), expectedValue>>)
        ELSE h1

AssertHeader(h, key, expectedValue) ==
    LET h1 == assertRequestExecuted(h)
    IN  IF h1.t.fatalCalled THEN h1
        ELSE IF h1.state.Response = Nil THEN Panic(h1)
        ELSE IF HeaderGet(h1.state.Response.Header, key) # expectedValue
        THEN Fatalf(h1, "Expected %q; got %q",
                    <<HeaderGet(h1.state.Response.Header, key), expectedValue>>)
        ELSE h1

\* getCookie that returns the last cookie with the name
getCookie_Last(cookies, wantCookie) ==
    LET found == { i \in 1..Len(cookies) : cookies[i].Name = wantCookie }
    IN  IF found = {} THEN Nil
        ELSE cookies[CHOOSE i \in found : \A j \in found : i >= j]

getCookie(cookies, wantCookie) ==
    LET found == { i \in 1..Len(cookies) : cookies[i].Name = wantCookie }
    IN  IF found = {} THEN Nil
        ELSE cookies[CHOOSE i \in found : \A j \in found : i <= j]

AssertCookieExists(h, cookieName) ==
    LET h1 == assertRequestExecuted(h)
    IN  IF h1.t.fatalCalled THEN h1
        ELSE IF h1.state.Response = Nil THEN Panic(h1)
        ELSE IF getCookie(Cookies(h1.state.Response), cookieName) = Nil
        THEN Fatalf(h1, "Expected to find cookie %q", <<cookieName>>)
        ELSE h1

AssertCookieValue(h, cookieName, expectedValue) ==
    LET h1     == assertRequestExecuted(h)
        cookie == getCookie(Cookies(h1.state.Response), cookieName)
    IN  IF h1.t.fatalCalled THEN h1
        ELSE IF h1.state.Response = Nil THEN Panic(h1)
        ELSE IF cookie = Nil
        THEN Fatalf(h1, "Expected to find cookie %q", <<cookieName>>)
        ELSE IF cookie.Value # expectedValue
        THEN Fatalf(h1, "Expected cookie to have value of %q; got %q",
                    <<expectedValue, cookie.Value>>)
        ELSE h1

\* (*http.Cookie).String
CookieString(c) ==
    <<c.Name, "=", c.Value>> \o (IF c.Path = "" THEN <<>> ELSE <<"; Path=", c.Path>>)

\* AssertCookieDeepEquals that looks the cookie up before it checks the name
AssertCookieDeepEquals_FindFirst(h, expectedCookie) ==
    LET h1         == assertRequestExecuted(h)
        cookieName == IF expectedCookie # Nil THEN expectedCookie.Name ELSE ""
        cookie     == getCookie(Cookies(h1.state.Response), cookieName)
    IN  IF h1.t.fatalCalled THEN h1
        ELSE IF h1.state.Response = Nil THEN Panic(h1)
        ELSE IF expectedCookie = Nil THEN Fatalf(h1, "Expected cookie is nil", <<>>)
        ELSE IF cookie = Nil THEN Fatalf(h1, "Expected to find cookie %q", <<cookieName>>)
        ELSE IF cookieName = ""
        THEN Fatalf(h1, "Expected cookie cannot have an empty Name", <<>>)
        ELSE IF CookieString(cookie) # CookieString(expectedCookie)
        THEN Fatalf(h1, "Expected %v; got %v", <<expectedCookie, cookie>>)
        ELSE h1

AssertCookieDeepEquals(h, expectedCookie) ==
    LET h1         == assertRequestExecuted(h)
        cookieName == IF expectedCookie # Nil THEN expectedCookie.Name ELSE ""
        cookie     == getCookie(Cookies(h1.state.Response), cookieName)
    IN  IF h1.t.fatalCalled THEN h1
        ELSE IF h1.state.Response = Nil THEN Panic(h1)
        ELSE IF expectedCookie = Nil THEN Fatalf(h1, "Expected cookie is nil", <<>>)
        ELSE IF cookieName = ""
        THEN Fatalf(h1, "Expected cookie cannot have an empty Name", <<>>)
        ELSE IF cookie = Nil THEN Fatalf(h1, "Expected to find cookie %q", <<cookieName>>)
        ELSE IF CookieString(cookie) # CookieString(expectedCookie)
        THEN Fatalf(h1, "Expected %v; got %v", <<expectedCookie, cookie>>)
        ELSE h1

\* reading the response body to its end (io.ReadAll, json.Decoder) leaves it empty
DrainBody(h) == [h EXCEPT !.state.Response.Body.data = <<>>]

\* AssertBody that accepts a body the expected bytes are a prefix of
AssertBody_Prefix(h, body) ==
    LET h1      == assertRequestExecuted(h)
        resBody == h1.state.Response.Body.data
    IN  IF h1.t.fatalCalled THEN h1
        ELSE IF h1.state.Response = Nil THEN Panic(h1)
        ELSE IF Len(body) > Len(resBody) \/ SubSeq(resBody, 1, Len(body)) # body
        THEN Fatalf(DrainBody(h1), "Expected %s; got %s", <<resBody, body>>)
        ELSE DrainBody(h1)

AssertBody(h, body) ==
    LET h1      == assertRequestExecuted(h)
        resBody == h1.state.Response.Body.data
    IN  IF h1.t.fatalCalled THEN h1
        ELSE IF h1.state.Response = Nil THEN Panic(h1)
        ELSE IF resBody # body
        THEN Fatalf(DrainBody(h1), "Expected %s; got %s", <<resBody, body>>)
        ELSE DrainBody(h1)

IsJsonObject(data) ==
    /\ Len(data) = 5
    /\ data[1] = "{" /\ data[2] = "value" /\ data[3] = ":" /\ data[5] = "}"

\* util.DecodeJSON: json.NewDecoder(w.Body).Decode(&r), r holding a pointer to
\* the caller's receiver.  The decoder follows pointers down to the receiver:
\* a *testStruct is filled in; a receiver that is not a pointer (the channel
\* value) is replaced by the generic map; a pointer to a channel cannot take
\* an object.
DecodeJSON(w, r) ==
    LET data == w.Body.data
    IN  IF data = <<>> THEN [r |-> r, err |-> "EOF"]
        ELSE IF ~IsJsonObject(data)
        THEN [r |-> r, err |-> "invalid character looking for beginning of value"]
        ELSE CASE r.type = "*testStruct" ->
                    [r |-> [type |-> "*testStruct", Value |-> data[4]], err |-> ""]
               [] r.type = "chan" ->
                    [r |-> [type |-> "map", Value |-> data[4]], err |-> ""]
               [] r.type = "*chan" ->
                    [r |-> r, err |-> "json: cannot unmarshal object into Go value of type chan int"]

\* the predicates handed to AssertStruct
ApplyPredicate(predicate, responseBody) ==
    CASE predicate = "true"      -> TRUE
      [] predicate = "false"     -> FALSE
      [] predicate = "valueIsV1" -> responseBody.Value = "v1"

\* AssertStruct that stores the decoded value only once the predicate holds
AssertStruct_StoresAfterPredicate(h, r, predicate) ==
    LET h1 == assertRequestExecuted(h)
        d  == DecodeJSON(h1.state.Response, r)
        h2 == DrainBody(h1)
        h3 == [h2 EXCEPT !.state.ResponseResult = d.r]
    IN  IF h1.t.fatalCalled THEN h1
        ELSE IF h1.state.Response = Nil THEN Panic(h1)
        ELSE IF d.err # "" THEN Fatalf(h2, "Error parsing response json: %s", <<d.err>>)
        ELSE IF ~ApplyPredicate(predicate, d.r)
        THEN Fatalf(h2, "Response body was not equal to predicate", <<>>)
        ELSE h3

AssertStruct(h, r, predicate) ==
    LET h1 == assertRequestExecuted(h)
        d  == DecodeJSON(h1.state.Response, r)
        h2 == DrainBody(h1)
        h3 == [h2 EXCEPT !.state.ResponseResult = d.r]
    IN  IF h1.t.fatalCalled THEN h1
        ELSE IF h1.state.Response = Nil THEN Panic(h1)
        ELSE IF d.err # "" THEN Fatalf(h2, "Error parsing response json: %s", <<d.err>>)
        ELSE IF ~ApplyPredicate(predicate, d.r)
        THEN Fatalf(h3, "Response body was not equal to predicate", <<>>)
        ELSE h3

\* a comparison that looks through pointers and ignores the dynamic type
DeepEqual_ValueOnly(a, b) == a.Value = b.Value

\* reflect.DeepEqual on the sampled shapes: same dynamic type, same fields
DeepEqual(a, b) == a.type = b.type /\ a.Value = b.Value

AssertStructDeepEquals(h, r, expected) ==
    LET h1 == assertRequestExecuted(h)
        d  == DecodeJSON(h1.state.Response, r)
        h2 == DrainBody(h1)
        h3 == [h2 EXCEPT !.state.ResponseResult = d.r]
    IN  IF h1.t.fatalCalled THEN h1
        ELSE IF h1.state.Response = Nil THEN Panic(h1)
        ELSE IF d.err # "" THEN Fatalf(h2, "Error parsing response json: %s", <<d.err>>)
        ELSE IF ~DeepEqual(d.r, expected) THEN Fatalf(h3, "Expected %v; got %v", <<expected, d.r>>)
        ELSE h3

----------------------------------------------------------------------------
(* The inputs of a test case.  A test case calls the tester with arguments *)
(* of its own choosing against a handler of its own; each sample below     *)
(* varies one family of arguments and keeps one value for the others.      *)

\* what the handler of the basic test writes: status 200, body {"value": "v1"}
WriteOk == [Code |-> 200, SetCookie |-> <<>>, Header |-> EmptyHeader, Body |-> JsonBody("v1")]

BaseInputs ==
    [name        |-> "base",
     methods     |-> {"OPTIONS"},
     urls        |-> { <<"/", "get">> },
     readers     |-> { Nil },
     urlFns      |-> {"urlConst"},
     readerFns   |-> {"readerNil"},
     headers     |-> { <<"X-H", "v1">> },
     headerFns   |-> {"headerConst"},
     cookies     |-> { [Name |-> "C", Value |-> "v1", Path |-> ""] },
     cookieFns   |-> {"cookieConst"},
     kvs         |-> { <<"k", "v1">> },
     valueFns    |-> {"valueConst"},
     jsonValues  |-> { [type |-> "testStruct", Value |-> "v1"] },
     writes      |-> { WriteOk },
     statuses    |-> {"200 OK", "401 Unauthorized"},
     codes       |-> {200, 401},
     headerWants |-> { <<"X-H", "">>, <<"X-H", "v1">> },
     cookieWants |-> { <<"C", "v1">> },
     cookieExps  |-> { Nil, [Name |-> "C", Value |-> "v1", Path |-> ""] },
     bodies      |-> { JsonBody("v1"), <<"Not equal">> },
     receivers   |-> { [type |-> "*testStruct", Value |-> ""] },
     predicates  |-> {"true"},
     expecteds   |-> { [type |-> "*testStruct", Value |-> "v1"] },
     recordsCookies |-> FALSE]

\* the request line: URLs with and without a query, one url.Parse rejects,
\* every kind of reader, an unencodable JSON value
LineInputs ==
    [BaseInputs EXCEPT
        !.name       = "line",
        !.methods    = {"OPTIONS", "GET"},
        !.urls       = { <<"/", "get">>, <<"/", "get", "?", "q">>, <<":">> },
        !.readers    = { Nil, PlainReader(<<"v1">>), ReadCloser(<<"v2">>) },
        !.urlFns     = {"urlConst", "urlBad"},
        !.jsonValues = { [type |-> "testStruct", Value |-> "v1"],
                         [type |-> "chan", Value |-> ""] }]

\* the value store: both keys, both values, closures that write into it
ValuesInputs ==
    [BaseInputs EXCEPT
        !.name       = "values",
        !.kvs        = { <<k, v>> : k \in Keys, v \in Vals },
        !.urlFns     = {"urlFromValue"},
        !.valueFns   = {"copyValue", "resultValue"},
        !.writes     = { [WriteOk EXCEPT !.Body = JsonBody("v2")] },
        !.bodies     = { JsonBody("v2") }]

\* closures that compute their result from the State they are handed
ClosureInputs ==
    [BaseInputs EXCEPT
        !.name       = "closure",
        !.urlFns     = {"urlFromResult"},
        !.readerFns  = {"readerFromValue"},
        !.headerFns  = {"headerFromValue"},
        !.cookieFns  = {"cookieFromValue"}]

\* cookies: the handler sets up to MaxRespCookies of them
ChainCookies ==
    { [Name |-> "T", Value |-> "v1", Path |-> ""],
      [Name |-> "D", Value |-> "v2", Path |-> "/p"] }

ChainInputs ==
    [BaseInputs EXCEPT
        !.name        = "chain",
        !.cookies     = { [Name |-> "C", Value |-> "v2", Path |-> ""],
                          [Name |-> "E", Value |-> "v1", Path |-> "/p"] },
        !.writes      = { [WriteOk EXCEPT !.SetCookie = cs] :
                            cs \in SeqsUpTo(ChainCookies, MaxRespCookies) },
        !.cookieWants = { <<"T", "v1">>, <<"D", "v1">> },
        !.cookieExps  = { Nil, [Name |-> "", Value |-> "v1", Path |-> ""],
                          [Name |-> "D", Value |-> "v2", Path |-> ""] } \cup ChainCookies]

\* the cookie assertions: a handler that sets the cookie T twice, with
\* different values and attributes, or sets none
TwoCookies ==
    << [Name |-> "T", Value |-> "v1", Path |-> ""],
       [Name |-> "T", Value |-> "v2", Path |-> "/p"] >>

CookieInputs ==
    [BaseInputs EXCEPT
        !.name        = "cookie",
        !.writes      = { WriteOk, [WriteOk EXCEPT !.SetCookie = TwoCookies] },
        !.cookieWants = { <<"T", "v1">>, <<"T", "v2">>, <<"D", "v1">> },
        !.cookieExps  = { Nil,
                          [Name |-> "", Value |-> "v1", Path |-> ""],
                          [Name |-> "D", Value |-> "v1", Path |-> ""],
                          [Name |-> "T", Value |-> "v1", Path |-> ""],
                          [Name |-> "T", Value |-> "v1", Path |-> "/p"],
                          [Name |-> "T", Value |-> "v2", Path |-> "/p"] }]

\* the scope of an added cookie: the test adds C=v1, the handler sets no
\* cookie or sets C=v1 itself; this test case records what it added
ScopeInputs ==
    [BaseInputs EXCEPT
        !.name           = "scope",
        !.headers        = { <<"X-H", "v1">>, <<"X-H", "v2">> },
        !.writes         = { WriteOk,
                             [WriteOk EXCEPT !.SetCookie =
                                 << [Name |-> "C", Value |-> "v1", Path |-> ""] >>] },
        !.recordsCookies = TRUE]

\* the response and the assertions on it
AssertInputs ==
    [BaseInputs EXCEPT
        !.name       = "assert",
        !.writes     = { [WriteOk EXCEPT !.Body = <<"Ok">>],
                         [WriteOk EXCEPT !.Header =
                             HeaderAdd(HeaderAdd(EmptyHeader, "X-H", "v1"), "x-h", "v2")],
                         [WriteOk EXCEPT !.Body = <<>>, !.Code = 401] },
        !.headerWants = { <<"X-H", "">>, <<"x-h", "v1">>, <<"X-H", "v2">> },
        !.bodies     = { <<"Ok">>, <<"Not equal">>, <<>> },
        !.receivers  = { [type |-> "*testStruct", Value |-> ""],
                         [type |-> "chan", Value |-> ""],
                         [type |-> "*chan", Value |-> ""] },
        !.predicates = {"true", "false", "valueIsV1"},
        !.expecteds  = { [type |-> "*testStruct", Value |-> "v1"],
                         [type |-> "*testStruct", Value |-> "v2"],
                         [type |-> "testStruct", Value |-> "v1"] }]

TestInputs ==
    { BaseInputs, LineInputs, ValuesInputs, ClosureInputs, ChainInputs, CookieInputs,
      ScopeInputs, AssertInputs }

\* f func(s State) (method string, url string, reader io.Reader)
NewRequestFns == [method : {"POST"}, url : inputs.urlFns, reader : inputs.readerFns]

\* f func(s State) (url string, reader io.Reader)
UrlReaderFns == [url : inputs.urlFns, reader : inputs.readerFns]

----------------------------------------------------------------------------
(* State machine *)

Running == op.ret = "returned"

\* the record of a call: its name and arguments, how many times it invoked
\* the closure it was given, how the call ended, how many times it invoked
\* the handler, and for Execute the request the handler was served and the
\* response it produced
Called(name, args, fCalls, h) ==
    [name |-> name, args |-> args, fCalls |-> fCalls,
     ret |-> IF h.panicked THEN "panic" ELSE IF h.t.fatalCalled THEN "fatal" ELSE "returned",
     serves |-> 0, served |-> Nil, produced |-> Nil]

\* the cookie a call hands to (*http.Request).AddCookie when the State is s
CookieArg(name, args, s) ==
    CASE name = "AddCookie" -> { [Name |-> args[1].Name, Value |-> args[1].Value] }
      [] name = "AddCookieWithState" ->
            { [Name  |-> ApplyCookieFn(args[1], s).Name,
               Value |-> ApplyCookieFn(args[1], s).Value] }
      [] OTHER -> {}

Do(name, args, fCalls, h) ==
    /\ Running
    /\ ht' = h
    /\ op' = Called(name, args, fCalls, h)
    /\ addedCookies' = IF inputs.recordsCookies
                       THEN addedCookies \cup CookieArg(name, args, ht.state)
                       ELSE addedCookies
    /\ servedLog' = [servedLog EXCEPT !.prev = Nil]
    /\ UNCHANGED <<everExecuted, inputs, two>>

\* New that hands out one package-level tester to every caller
NewTester_Singleton(heap) ==
    [addr |-> 1, heap |-> IF heap = <<>> THEN <<New>> ELSE heap]

\* New returns &Httptester{...}: the address of a composite literal is a new
\* object on the heap of testers
NewTester(heap) == [addr |-> Len(heap) + 1, heap |-> Append(heap, New)]

\* the state after tester1 := New(...); tester2 := New(...): the heap, the two
\* handles, what each tester's own calls make of a tester that runs alone,
\* and the last call with its outcome on the heap and alone
TwoNew ==
    LET n1 == NewTester(<<>>)
        n2 == NewTester(n1.heap)
    IN  [heap    |-> n2.heap,
         handles |-> <<n1.addr, n2.addr>>,
         alone   |-> <<New, New>>,
         last    |-> [by |-> 0, name |-> "New", args |-> <<>>,
                      ret |-> "returned", retAlone |-> "returned"]]

Init ==
    /\ ht = New
    /\ op = Called("New", <<>>, 0, New)
    /\ everExecuted = FALSE
    /\ inputs \in TestInputs
    /\ addedCookies = {}
    /\ servedLog = [prev |-> Nil, last |-> Nil]
    /\ two = TwoNew

DoNewRequest ==
    \E method \in inputs.methods, url \in inputs.urls, reader \in inputs.readers :
        Do("NewRequest", <<method, url, reader>>, 0, NewRequest(ht, method, url, reader))

DoNewRequestWithState ==
    \E f \in NewRequestFns :
        Do("NewRequestWithState", <<f>>, 1, NewRequestWithState(ht, f))

DoGet ==
    \E url \in inputs.urls : Do("Get", <<url>>, 0, Get(ht, url))

DoGetWithState ==
    \E f \in inputs.urlFns : Do("GetWithState", <<f>>, 1, GetWithState(ht, f))

DoPost ==
    \E url \in inputs.urls, reader \in inputs.readers :
        Do("Post", <<url, reader>>, 0, Post(ht, url, reader))

DoPostWithState ==
    \E f \in UrlReaderFns : Do("PostWithState", <<f>>, 1, PostWithState(ht, f))

DoPut ==
    \E url \in inputs.urls, reader \in inputs.readers :
        Do("Put", <<url, reader>>, 0, Put(ht, url, reader))

DoPutWithState ==
    \E f \in UrlReaderFns : Do("PutWithState", <<f>>, 1, PutWithState(ht, f))

DoPatch ==
    \E url \in inputs.urls, reader \in inputs.readers :
        Do("Patch", <<url, reader>>, 0, Patch(ht, url, reader))

DoPatchWithState ==
    \E f \in UrlReaderFns : Do("PatchWithState", <<f>>, 1, PatchWithState(ht, f))

DoDelete ==
    \E url \in inputs.urls : Do("Delete", <<url>>, 0, Delete(ht, url))

DoDeleteWithState ==
    \E f \in inputs.urlFns : Do("DeleteWithState", <<f>>, 1, DeleteWithState(ht, f))

DoSetBody ==
    \E reader \in inputs.readers : Do("SetBody", <<reader>>, 0, SetBody(ht, reader))

DoSetRequestBodyJSON ==
    \E body \in inputs.jsonValues :
        Do("SetRequestBodyJSON", <<body>>, 0, SetRequestBodyJSON(ht, body))

DoSetBodyWithState ==
    \E f \in inputs.readerFns :
        Do("SetBodyWithState", <<f>>, 1, SetBodyWithState(ht, f))

DoAddHeader ==
    \E kv \in inputs.headers :
        Do("AddHeader", kv, 0, AddHeader(ht, kv[1], kv[2]))

DoAddHeaderWithState ==
    \E f \in inputs.headerFns :
        Do("AddHeaderWithState", <<f>>, 1, AddHeaderWithState(ht, f))

\* cookies already on the pending request
PendingCookies == IF ht.state.Request = Nil THEN 0 ELSE Len(ht.state.Request.Cookie)

DoAddCookie ==
    /\ PendingCookies < MaxCookies
    /\ \E cookie \in inputs.cookies :
          Do("AddCookie", <<cookie>>, 0, AddCookie(ht, cookie))

DoAddCookieWithState ==
    /\ PendingCookies < MaxCookies
    /\ \E f \in inputs.cookieFns :
          Do("AddCookieWithState", <<f>>, 1, AddCookieWithState(ht, f))

DoSetValue ==
    \E kv \in inputs.kvs : Do("SetValue", kv, 0, SetValue(ht, kv[1], kv[2]))

DoSetValueWithState ==
    \E f \in inputs.valueFns :
        Do("SetValueWithState", <<f>>, 1, SetValueWithState(ht, f))

\* Execute: the handler writes one of the responses of this test's handler
\* what the record of served requests keeps of a request: whether method,
\* URL, body and header had all been set away from the default, and the
\* cookies it carried
ServedSummary(req) ==
    [allSet |-> /\ req.Method # "GET"
                /\ URLString(req.URL) # <<"/">>
                /\ req.Body # Nil
                /\ DOMAIN req.Header # {},
     Cookie |-> req.Cookie]

DoExecute ==
    /\ Running
    /\ \E w \in inputs.writes :
          /\ ht' = Execute(ht, w)
          /\ op' = [Called("Execute", <<>>, 0, Execute(ht, w)) EXCEPT
                      !.serves   = IF Served(ht) = Nil THEN 0 ELSE 1,
                      !.served   = Served(ht),
                      !.produced = IF Served(ht) = Nil THEN Nil ELSE Result(w)]
    /\ everExecuted' = TRUE
    /\ servedLog' = IF inputs.recordsCookies /\ Served(ht) # Nil
                    THEN [prev |-> servedLog.last, last |-> ServedSummary(Served(ht))]
                    ELSE servedLog
    /\ UNCHANGED <<inputs, addedCookies, two>>

DoAssertStatus ==
    \E expectedStatus \in inputs.statuses :
        Do("AssertStatus", <<expectedStatus>>, 0, AssertStatus(ht, expectedStatus))

DoAssertStatusCode ==
    \E statusCode \in inputs.codes :
        Do("AssertStatusCode", <<statusCode>>, 0, AssertStatusCode(ht, statusCode))

DoAssertHeader ==
    \E kv \in inputs.headerWants :
        Do("AssertHeader", kv, 0, AssertHeader(ht, kv[1], kv[2]))

DoAssertCookieExists ==
    \E kv \in inputs.cookieWants :
        Do("AssertCookieExists", <<kv[1]>>, 0, AssertCookieExists(ht, kv[1]))

DoAssertCookieValue ==
    \E kv \in inputs.cookieWants :
        Do("AssertCookieValue", kv, 0, AssertCookieValue(ht, kv[1], kv[2]))

DoAssertCookieDeepEquals ==
    \E expectedCookie \in inputs.cookieExps :
        Do("AssertCookieDeepEquals", <<expectedCookie>>, 0,
           AssertCookieDeepEquals(ht, expectedCookie))

DoAssertBody ==
    \E body \in inputs.bodies : Do("AssertBody", <<body>>, 0, AssertBody(ht, body))

DoAssertStruct ==
    \E r \in inputs.receivers, predicate \in inputs.predicates :
        Do("AssertStruct", <<r, predicate>>, 0, AssertStruct(ht, r, predicate))

DoAssertStructDeepEquals ==
    \E r \in inputs.receivers, expected \in inputs.expecteds :
        Do("AssertStructDeepEquals", <<r, expected>>, 0,
           AssertStructDeepEquals(ht, r, expected))

Next ==
    \/ DoNewRequest
    \/ DoNewRequestWithState
    \/ DoGet
    \/ DoGetWithState
    \/ DoPost
    \/ DoPostWithState
    \/ DoPut
    \/ DoPutWithState
    \/ DoPatch
    \/ DoPatchWithState
    \/ DoDelete
    \/ DoDeleteWithState
    \/ DoSetBody
    \/ DoSetRequestBodyJSON
    \/ DoSetBodyWithState
    \/ DoAddHeader
    \/ DoAddHeaderWithState
    \/ DoAddCookie
    \/ DoAddCookieWithState
    \/ DoSetValue
    \/ DoSetValueWithState
    \/ DoExecute
    \/ DoAssertStatus
    \/ DoAssertStatusCode
    \/ DoAssertHeader
    \/ DoAssertCookieExists
    \/ DoAssertCookieValue
    \/ DoAssertCookieDeepEquals
    \/ DoAssertBody
    \/ DoAssertStruct
    \/ DoAssertStructDeepEquals

Spec == Init /\ [][Next]_vars

\* one test case per family of inputs
InitBase == Init /\ inputs = BaseInputs

SpecBase == InitBase /\ [][Next]_vars

InitLine == Init /\ inputs = LineInputs

SpecLine == InitLine /\ [][Next]_vars

InitValues == Init /\ inputs = ValuesInputs

SpecValues == InitValues /\ [][Next]_vars

InitClosure == Init /\ inputs = ClosureInputs

SpecClosure == InitClosure /\ [][Next]_vars

InitChain == Init /\ inputs = ChainInputs

SpecChain == InitChain /\ [][Next]_vars

InitCookie == Init /\ inputs = CookieInputs

SpecCookie == InitCookie /\ [][Next]_vars

InitScope == Init /\ inputs = ScopeInputs

SpecScope == InitScope /\ [][Next]_vars

InitAssert == Init /\ inputs = AssertInputs

SpecAssert == InitAssert /\ [][Next]_vars

----------------------------------------------------------------------------
(* Two testers.  Two goroutines each drive the tester their own New call   *)
(* returned; a step is one call by one of them.                            *)

\* the tester object goroutine i holds
Obj(i) == two.heap[two.handles[i]]

\* how a call that left the tester as h ended
RetOf(h) == Called("", <<>>, 0, h).ret

\* goroutine i makes a call that turns its tester into h; hAlone is what the
\* same call makes of the tester that runs alone
TwoDo(i, name, args, h, hAlone) ==
    /\ RetOf(Obj(i)) = "returned"
    /\ two' = [two EXCEPT !.heap[two.handles[i]] = h,
                          !.alone[i] = hAlone,
                          !.last = [by |-> i, name |-> name, args |-> args,
                                    ret |-> RetOf(h), retAlone |-> RetOf(hAlone)]]
    /\ UNCHANGED <<ht, op, everExecuted, inputs, addedCookies, servedLog>>

TwoGet ==
    \E i \in {1, 2}, url \in inputs.urls :
        TwoDo(i, "Get", <<url>>, Get(Obj(i), url), Get(two.alone[i], url))

TwoAddCookie ==
    \E i \in {1, 2}, cookie \in inputs.cookies :
        /\ (IF Obj(i).state.Request = Nil THEN 0
            ELSE Len(Obj(i).state.Request.Cookie)) < MaxCookies
        /\ TwoDo(i, "AddCookie", <<cookie>>,
                 AddCookie(Obj(i), cookie), AddCookie(two.alone[i], cookie))

TwoSetValue ==
    \E i \in {1, 2}, value \in Vals :
        TwoDo(i, "SetValue", <<"k", value>>,
              SetValue(Obj(i), "k", value), SetValue(two.alone[i], "k", value))

TwoExecute ==
    \E i \in {1, 2}, w \in inputs.writes :
        TwoDo(i, "Execute", <<>>, Execute(Obj(i), w), Execute(two.alone[i], w))

TwoAssertStatusCode ==
    \E i \in {1, 2}, statusCode \in inputs.codes :
        TwoDo(i, "AssertStatusCode", <<statusCode>>,
              AssertStatusCode(Obj(i), statusCode),
              AssertStatusCode(two.alone[i], statusCode))

TwoAssertBody ==
    \E i \in {1, 2}, body \in inputs.bodies :
        TwoDo(i, "AssertBody", <<body>>,
              AssertBody(Obj(i), body), AssertBody(two.alone[i], body))

NextTwo ==
    \/ TwoGet
    \/ TwoAddCookie
    \/ TwoSetValue
    \/ TwoExecute
    \/ TwoAssertStatusCode
    \/ TwoAssertBody

InitTwo == Init /\ inputs = BaseInputs

SpecTwo == InitTwo /\ [][NextTwo]_vars

----------------------------------------------------------------------------
(* Vocabulary of the properties *)

AssertionNames ==
    {"AssertStatus", "AssertStatusCode", "AssertHeader", "AssertCookieExists",
     "AssertCookieValue", "AssertCookieDeepEquals", "AssertBody", "AssertStruct",
     "AssertStructDeepEquals"}

\* the calls that end in NewRequest, with the raw URL each hands to it
NewRequestNames ==
    {"NewRequest", "Get", "Post", "Put", "Patch", "Delete", "NewRequestWithState",
     "GetWithState", "PostWithState", "PutWithState", "PatchWithState", "DeleteWithState"}

\* the raw URL call c hands to NewRequest when the State is s
UrlArg(c, s) ==
    CASE c.name = "NewRequest" -> c.args[2]
      [] c.name \in {"Get", "Post", "Put", "Patch", "Delete"} -> c.args[1]
      [] c.name \in {"GetWithState", "DeleteWithState"} -> ApplyUrlFn(c.args[1], s)
      [] OTHER -> ApplyUrlFn(c.args[1].url, s)

\* the method call c hands to NewRequest
MethodArg(c) ==
    CASE c.name = "NewRequest" -> c.args[1]
      [] c.name = "NewRequestWithState" -> c.args[1].method
      [] c.name \in {"Get", "GetWithState"} -> "GET"
      [] c.name \in {"Post", "PostWithState"} -> "POST"
      [] c.name \in {"Put", "PutWithState"} -> "PUT"
      [] c.name \in {"Patch", "PatchWithState"} -> "PATCH"
      [] c.name \in {"Delete", "DeleteWithState"} -> "DELETE"

\* the calls that set a body, with the reader each supplies
BodyNames ==
    (NewRequestNames \cup {"SetBody", "SetBodyWithState"})

\* the body source call c supplies when the State is s
ReaderArg(c, s) ==
    CASE c.name = "NewRequest" -> c.args[3]
      [] c.name \in {"Post", "Put", "Patch"} -> c.args[2]
      [] c.name = "SetBody" -> c.args[1]
      [] c.name = "SetBodyWithState" -> ApplyReaderFn(c.args[1], s)
      [] c.name \in {"Get", "Delete", "GetWithState", "DeleteWithState"} -> Nil
      [] OTHER -> ApplyReaderFn(c.args[1].reader, s)

\* the request-building mutators: every call that goes through getRequest
BuilderNames ==
    BodyNames \cup {"SetRequestBodyJSON", "AddHeader", "AddHeaderWithState",
                    "AddCookie", "AddCookieWithState"}

\* the body of the pending request, Nil when there is no pending request
PendingBody(h) == IF h.state.Request = Nil THEN Nil ELSE h.state.Request.Body

\* a and b are the same *http.Response: both nil, or equal in everything but
\* how far the body stream has been read
SameResponse(a, b) ==
    IF a = Nil \/ b = Nil THEN a = b
    ELSE [a EXCEPT !.Body.data = <<>>] = [b EXCEPT !.Body.data = <<>>]

\* whether the JSON decoder can decode the remaining body of response w into
\* receiver r: the body is a JSON object and r is not a pointer to a channel
Decodes(w, r) == IsJsonObject(w.Body.data) /\ r.type # "*chan"

\* the cookies on the pending request, none when there is no pending request
PendingCookieSeq(h) == IF h.state.Request = Nil THEN <<>> ELSE h.state.Request.Cookie

\* the cookies (name, value) the last response set, none before the first Execute
ResponseCookies(h) ==
    IF h.state.Response = Nil THEN {}
    ELSE { [Name |-> Cookies(h.state.Response)[i].Name,
            Value |-> Cookies(h.state.Response)[i].Value] :
              i \in 1..Len(Cookies(h.state.Response)) }

\* members of a sequence
Range(q) == { q[i] : i \in 1..Len(q) }

----------------------------------------------------------------------------
(* C1 - C10 *)

\* C1: an assertion made on a tester on which Execute was never called is
\* fatal with "Request ... was not executed", for each of the nine assertion
\* operations, whatever builder calls came before and whatever its arguments.
C1_AssertBeforeExecuteIsFatal ==
    (op.name \in AssertionNames /\ ~everExecuted) =>
        /\ op.ret = "fatal"
        /\ ht.t.fatalCalled
        /\ ht.t.msg.format = "Request %q was not executed"

\* C1 witness: AssertStructDeepEquals after builder calls (a POST with a
\* header), no Execute, ended in Fatalf.
C1_Witness ==
    /\ op.name = "AssertStructDeepEquals"
    /\ ~everExecuted
    /\ op.ret = "fatal"
    /\ ht.state.Request # Nil
    /\ ht.state.Request.Method = "POST"
    /\ ht.state.Request.Header # EmptyHeader

\* C2: when Execute serves a request and the previous Execute's response set
\* cookies, the served request carries each of them (name and value).
C2_CookieChaining ==
    [][ (op'.name = "Execute" /\ op'.ret = "returned" /\ ht.state.Response # Nil) =>
            \A c \in Range(Cookies(ht.state.Response)) :
                [Name |-> c.Name, Value |-> c.Value] \in Range(op'.served.Cookie) ]_vars

\* C2 witness: a served request whose only cookie is T=v1, which the test
\* never adds (it adds C=... and E=...): it came from the previous response.
C2_Witness ==
    /\ op.name = "Execute"
    /\ op.ret = "returned"
    /\ inputs.name = "chain"
    /\ op.served.Cookie = << [Name |-> "T", Value |-> "v1"] >>

\* C3: after an Execute that returns, requestExecuted is true, State.Response
\* is the response the handler produced in this call, State.Request is nil.
C3_ExecutePostState ==
    (op.name = "Execute" /\ op.ret = "returned") =>
        /\ ht.requestExecuted
        /\ ht.state.Response = op.produced
        /\ ht.state.Response # Nil
        /\ ht.state.Request = Nil

\* C3 witness: a second Execute (its request carried the first response's
\* cookie) whose response, without cookies, replaced the first one.
C3_Witness ==
    /\ op.name = "Execute"
    /\ op.ret = "returned"
    /\ op.served.Cookie # <<>>
    /\ ht.state.Response.SetCookie = <<>>
    /\ ht.requestExecuted

\* C4 as claimed: whenever State.Request is nil, Execute default-constructs
\* GET "/", forwards the previous response's cookies onto it, serves it and
\* returns with requestExecuted true.
C4_ExecuteOnAbsentRequest ==
    [][ (op'.name = "Execute" /\ ht.state.Request = Nil) =>
            /\ op'.ret = "returned"
            /\ ht'.requestExecuted
            /\ op'.served # Nil
            /\ op'.served.Method = "GET"
            /\ op'.served.URL = Parse(<<"/">>).url
            /\ op'.served.Body = Nil ]_vars

\* C5: NewRequest(method, url, body) with a URL that parses leaves
\* requestExecuted false, ResponseResult nil, and a pending request with the
\* given method, the URL split into path and query, and the given body.
C5_NewRequestPostState ==
    [][ (op'.name = "NewRequest" /\ op'.args[2][1] # ":") =>
            /\ op'.ret = "returned"
            /\ ~ht'.requestExecuted
            /\ ht'.state.ResponseResult = Nil
            /\ ht'.state.Request # Nil
            /\ ht'.state.Request.Method = op'.args[1]
            /\ URLString(ht'.state.Request.URL) = op'.args[2]
            /\ "?" \notin Range(ht'.state.Request.URL.Path)
            /\ (op'.args[3] = Nil => ht'.state.Request.Body = Nil)
            /\ (op'.args[3] # Nil =>
                    /\ ht'.state.Request.Body # Nil
                    /\ ht'.state.Request.Body.data = op'.args[3].data) ]_vars

\* C5 witness: NewRequest("OPTIONS", "/get?q", reader) on a request that was
\* already pending (it has a header from an earlier AddHeader).
C5_Witness ==
    /\ op.name = "NewRequest"
    /\ op.ret = "returned"
    /\ ht.state.Request.Method = "OPTIONS"
    /\ ht.state.Request.URL.RawQuery = <<"q">>
    /\ ht.state.Request.Body # Nil
    /\ ht.state.Request.Header # EmptyHeader
    /\ everExecuted

\* C6: after a call that sets the body, the pending request's body is nil
\* exactly when no body source was supplied (nil reader, Get, Delete), and
\* non-nil when a reader was; SetRequestBodyJSON that returns leaves it non-nil.
C6_BodyAbsentIffNoReader ==
    [][ /\ (op'.name \in BodyNames /\ op'.ret = "returned") =>
                (ht'.state.Request.Body = Nil <=> ReaderArg(op', ht.state) = Nil)
        /\ (op'.name = "SetRequestBodyJSON" /\ op'.ret = "returned") =>
                ht'.state.Request.Body # Nil ]_vars

\* C6 witness: SetBody(nil) removed the body of a pending POST request.
C6_Witness ==
    /\ op.name = "SetBody"
    /\ op.args = <<Nil>>
    /\ ht.state.Request.Method = "POST"
    /\ ht.state.Request.Body = Nil

\* C6 second witness: a plain reader was wrapped into a non-nil body.
C6_WitnessReader ==
    /\ op.name = "Put"
    /\ op.args[2] = PlainReader(<<"v1">>)
    /\ ht.state.Request.Body # Nil
    /\ ht.state.Request.Body.nop

\* C7: a call that reaches NewRequest with a URL url.Parse rejects ends in
\* Fatalf, and the body it was given is not installed: the pending request's
\* body is what it was before the call.
C7_BadURLIsFatal ==
    [][ (op'.name \in NewRequestNames /\ UrlArg(op', ht.state)[1] = ":") =>
            /\ op'.ret = "fatal"
            /\ ht'.t.fatalCalled
            /\ ht'.t.msg.format = "missing protocol scheme"
            /\ PendingBody(ht') = PendingBody(ht) ]_vars

\* C7 witness: Post(":", reader) ended in Fatalf with no body installed.
C7_Witness ==
    /\ op.name = "Post"
    /\ op.args[1] = <<":">>
    /\ op.args[2] # Nil
    /\ op.ret = "fatal"
    /\ ht.state.Request.Body = Nil

\* C8: each method shorthand leaves the tester as the NewRequest call with
\* the fixed method does.
C8_ShorthandsAreNewRequest ==
    [][ /\ op'.name = "Get"    => ht' = NewRequest(ht, "GET", op'.args[1], Nil)
        /\ op'.name = "Delete" => ht' = NewRequest(ht, "DELETE", op'.args[1], Nil)
        /\ op'.name = "Post"   => ht' = NewRequest(ht, "POST", op'.args[1], op'.args[2])
        /\ op'.name = "Put"    => ht' = NewRequest(ht, "PUT", op'.args[1], op'.args[2])
        /\ op'.name = "Patch"  => ht' = NewRequest(ht, "PATCH", op'.args[1], op'.args[2])
      ]_vars

\* C8 witness: Patch("/get?q", reader) on an executed tester.
C8_Witness ==
    /\ op.name = "Patch"
    /\ op.ret = "returned"
    /\ everExecuted
    /\ ht.state.Request.Method = "PATCH"
    /\ ht.state.Request.URL.RawQuery = <<"q">>
    /\ ht.state.Request.Body # Nil

\* C9: a state-aware variant invokes its closure once and leaves the tester
\* as the plain variant does when called with what the closure computes from
\* the State before the call.
C9_WithStateDelegates ==
    [][ /\ op'.name \in {"NewRequestWithState", "GetWithState", "PostWithState",
                         "PutWithState", "PatchWithState", "DeleteWithState",
                         "SetBodyWithState", "AddHeaderWithState", "AddCookieWithState",
                         "SetValueWithState"} => op'.fCalls = 1
        /\ op'.name = "NewRequestWithState" =>
              ht' = NewRequest(ht, op'.args[1].method, ApplyUrlFn(op'.args[1].url, ht.state),
                               ApplyReaderFn(op'.args[1].reader, ht.state))
        /\ op'.name = "GetWithState" => ht' = Get(ht, ApplyUrlFn(op'.args[1], ht.state))
        /\ op'.name = "DeleteWithState" => ht' = Delete(ht, ApplyUrlFn(op'.args[1], ht.state))
        /\ op'.name = "PostWithState" =>
              ht' = Post(ht, ApplyUrlFn(op'.args[1].url, ht.state),
                         ApplyReaderFn(op'.args[1].reader, ht.state))
        /\ op'.name = "PutWithState" =>
              ht' = Put(ht, ApplyUrlFn(op'.args[1].url, ht.state),
                        ApplyReaderFn(op'.args[1].reader, ht.state))
        /\ op'.name = "PatchWithState" =>
              ht' = Patch(ht, ApplyUrlFn(op'.args[1].url, ht.state),
                          ApplyReaderFn(op'.args[1].reader, ht.state))
        /\ op'.name = "SetBodyWithState" =>
              ht' = SetBody(ht, ApplyReaderFn(op'.args[1], ht.state))
        /\ op'.name = "AddHeaderWithState" =>
              ht' = AddHeader(ht, ApplyHeaderFn(op'.args[1], ht.state)[1],
                              ApplyHeaderFn(op'.args[1], ht.state)[2])
        /\ op'.name = "AddCookieWithState" =>
              ht' = AddCookie(ht, ApplyCookieFn(op'.args[1], ht.state))
        /\ op'.name = "SetValueWithState" =>
              ht' = SetValue(ht, ApplyValueFn(op'.args[1], ht.state)[1],
                             ApplyValueFn(op'.args[1], ht.state)[2])
      ]_vars

\* C9 witness: GetWithState with the closure that reads ResponseResult built
\* "/v1" from the value AssertStruct had decoded.
C9_Witness ==
    /\ op.name = "GetWithState"
    /\ op.args = <<"urlFromResult">>
    /\ ht.state.Request.URL.Path = <<"/", "v1">>
    /\ ht.state.ResponseResult = Nil

\* C10: SetValue(k, x) makes Values[k] = x; a later closure that reads
\* Values[k] gets x; a write to another key leaves Values[k] alone; and no
\* call other than SetValue / SetValueWithState changes Values.
C10_ValuesRoundTrip ==
    [][ /\ op'.name = "SetValue" =>
              /\ op'.args[1] \in DOMAIN ht'.state.Values
              /\ ht'.state.Values[op'.args[1]] = op'.args[2]
        /\ op'.name \in {"SetValue", "SetValueWithState"} =>
              \A k \in DOMAIN ht.state.Values :
                  \/ k \in DOMAIN ht'.state.Values /\ ht'.state.Values[k] = ht.state.Values[k]
                  \/ op'.name = "SetValue" /\ k = op'.args[1]
                  \/ op'.name = "SetValueWithState"
                        /\ k = ApplyValueFn(op'.args[1], ht.state)[1]
        /\ op'.name \notin {"SetValue", "SetValueWithState"} =>
              ht'.state.Values = ht.state.Values
        /\ (op'.name = "GetWithState" /\ op'.args = <<"urlFromValue">>
                /\ "id" \in DOMAIN ht.state.Values) =>
              ht'.state.Request.URL.Path = <<"/", ht.state.Values["id"]>>
      ]_vars

\* C10 witness: after an Execute, a closure read Values["id"] = "v2", which
\* had overwritten nothing else: Values["k"] is still "v1".
C10_Witness ==
    /\ op.name = "GetWithState"
    /\ op.args = <<"urlFromValue">>
    /\ everExecuted
    /\ DOMAIN ht.state.Values = {"k", "id"}
    /\ ht.state.Values["k"] = "v1"
    /\ ht.state.Request.URL.Path = <<"/", "v2">>

----------------------------------------------------------------------------
(* C11 - C20 *)

\* C11: State.Values only grows: no call removes a key (Execute and the calls
\* that start a new request included), and a write under a key, new or
\* already present, leaves the latest value under it.
C11_ValuesAccumulate ==
    [][ /\ DOMAIN ht.state.Values \subseteq DOMAIN ht'.state.Values
        /\ op'.name = "SetValue" =>
              /\ op'.args[1] \in DOMAIN ht'.state.Values
              /\ ht'.state.Values[op'.args[1]] = op'.args[2]
        /\ op'.name = "SetValueWithState" =>
              /\ ApplyValueFn(op'.args[1], ht.state)[1] \in DOMAIN ht'.state.Values
              /\ ht'.state.Values[ApplyValueFn(op'.args[1], ht.state)[1]]
                    = ApplyValueFn(op'.args[1], ht.state)[2]
      ]_vars

\* C11 witness: SetValue("id", "v2") over an "id" that held "v1" (the pending
\* request's path was built from it), with "k" written before the Execute
\* still in the store.
C11_Witness ==
    /\ op.name = "SetValue"
    /\ op.args = <<"id", "v2">>
    /\ everExecuted
    /\ ht.state.Request # Nil
    /\ ht.state.Request.URL.Path = <<"/", "v1">>
    /\ DOMAIN ht.state.Values = {"k", "id"}
    /\ ht.state.Values["id"] = "v2"

\* C12: a request-building mutator that returns leaves requestExecuted false
\* and State.Response as it was; requestExecuted stays false until the next
\* Execute; and an assertion made while it is false is fatal with
\* "Request ... was not executed", whatever State.Response holds.
C12_BuilderResetsExecuted ==
    [][ /\ (op'.name \in BuilderNames /\ op'.ret = "returned") =>
              /\ ~ht'.requestExecuted
              /\ ht'.state.Response = ht.state.Response
        /\ (~ht.requestExecuted /\ op'.name # "Execute") => ~ht'.requestExecuted
        /\ (~ht.requestExecuted /\ op'.name \in AssertionNames) =>
              /\ op'.ret = "fatal"
              /\ ht'.t.msg.format = "Request %q was not executed"
      ]_vars

\* C12 witness: AssertStatusCode(200) is fatal as not executed although the
\* response of the earlier Execute, status 200, is still in State.Response;
\* the pending request was started by AddHeader after that Execute.
C12_Witness ==
    /\ op.name = "AssertStatusCode"
    /\ op.args = <<200>>
    /\ op.ret = "fatal"
    /\ ht.t.msg.format = "Request %q was not executed"
    /\ everExecuted
    /\ ht.state.Response # Nil
    /\ ht.state.Response.StatusCode = 200
    /\ ht.state.Request.Method = "GET"
    /\ ht.state.Request.URL.Path = <<"/">>
    /\ ht.state.Request.Header # EmptyHeader
    /\ ht.state.Request.Body = Nil

C14_ResponseLifetime ==
    /\ ht.state.Response = Nil
    /\ [][ /\ (ht'.state.Response = Nil) <=> ~everExecuted'
           /\ (op'.name # "Execute") => SameResponse(ht.state.Response, ht'.state.Response)
           /\ (op'.name = "Execute" /\ op'.ret = "returned") =>
                 ht'.state.Response = op'.produced
           /\ (ht.state.Response # Nil) => ht'.state.Response # Nil
         ]_vars

\* C14 witness: SetBody started a new request after an Execute whose response
\* set the cookie T; requestExecuted is false again and that response is still
\* in State.Response.
C14_Witness ==
    /\ op.name = "SetBody"
    /\ op.ret = "returned"
    /\ everExecuted
    /\ ~ht.requestExecuted
    /\ ht.state.Request.Cookie = <<>>
    /\ ht.state.Response # Nil
    /\ Cookies(ht.state.Response) = << [Name |-> "T", Value |-> "v1", Path |-> ""] >>

\* C15: on an executed tester AssertStatus(s) returns iff s is the status
\* line of State.Response and is fatal otherwise; AssertStatusCode(c) returns
\* iff c is its status code and is fatal otherwise; AssertHeader(k, v) returns
\* iff v is the first value under k (canonical form) in its header, "" when
\* there is none, and is fatal otherwise.  A passing assertion changes nothing.
C15_EqualityAssertions ==
    [][ /\ (op'.name \in {"AssertStatus", "AssertStatusCode", "AssertHeader"}
                /\ ht.requestExecuted) =>
              /\ op'.ret \in {"returned", "fatal"}
              /\ (op'.ret = "fatal") <=> ht'.t.fatalCalled
              /\ (op'.ret = "returned") => ht' = ht
        /\ (op'.name = "AssertStatus" /\ ht.requestExecuted) =>
              ((op'.ret = "returned") <=> (op'.args[1] = ht.state.Response.Status))
        /\ (op'.name = "AssertStatusCode" /\ ht.requestExecuted) =>
              ((op'.ret = "returned") <=> (op'.args[1] = ht.state.Response.StatusCode))
        /\ (op'.name = "AssertHeader" /\ ht.requestExecuted) =>
              LET ck == CanonicalMIMEHeaderKey(op'.args[1])
                  hd == ht.state.Response.Header
                  first == IF ck \in DOMAIN hd THEN Head(hd[ck]) ELSE ""
              IN  (op'.ret = "returned") <=> (op'.args[2] = first)
      ]_vars

\* C15 witness: AssertHeader("X-H", "v2") is fatal on a response whose X-H
\* header has the values v1, v2: only the first value counts.
C15_Witness ==
    /\ op.name = "AssertHeader"
    /\ op.args = <<"X-H", "v2">>
    /\ op.ret = "fatal"
    /\ ht.requestExecuted
    /\ "X-H" \in DOMAIN ht.state.Response.Header
    /\ ht.state.Response.Header["X-H"] = <<"v1", "v2">>
    /\ ht.t.msg.format = "Expected %q; got %q"

\* C15 second witness: AssertStatus("401 Unauthorized") passed on a 401.
C15_WitnessPass ==
    /\ op.name = "AssertStatus"
    /\ op.args = <<"401 Unauthorized">>
    /\ op.ret = "returned"
    /\ ht.requestExecuted
    /\ ht.state.Response.StatusCode = 401

\* C16: on an executed tester AssertCookieExists(n) returns iff State.Response
\* sets a cookie named n and is fatal otherwise; AssertCookieValue(n, v) is
\* fatal when no cookie is named n, fatal when the first cookie named n has
\* another value, and returns iff the first cookie named n has the value v.
C16_CookieAssertions ==
    [][ /\ (op'.name \in {"AssertCookieExists", "AssertCookieValue"}
                /\ ht.requestExecuted) =>
              /\ op'.ret \in {"returned", "fatal"}
              /\ (op'.ret = "fatal") <=> ht'.t.fatalCalled
        /\ (op'.name = "AssertCookieExists" /\ ht.requestExecuted) =>
              LET cs == Cookies(ht.state.Response)
              IN  /\ (op'.ret = "returned") <=>
                        (\E i \in 1..Len(cs) : cs[i].Name = op'.args[1])
                  /\ (op'.ret = "fatal") =>
                        ht'.t.msg = [format |-> "Expected to find cookie %q",
                                     args |-> <<op'.args[1]>>]
        /\ (op'.name = "AssertCookieValue" /\ ht.requestExecuted) =>
              LET cs    == Cookies(ht.state.Response)
                  named == { i \in 1..Len(cs) : cs[i].Name = op'.args[1] }
                  first == CHOOSE i \in named : \A j \in named : i <= j
              IN  /\ (named = {}) =>
                        /\ op'.ret = "fatal"
                        /\ ht'.t.msg.format = "Expected to find cookie %q"
                  /\ (named # {} /\ cs[first].Value # op'.args[2]) =>
                        /\ op'.ret = "fatal"
                        /\ ht'.t.msg.format = "Expected cookie to have value of %q; got %q"
                  /\ (op'.ret = "returned") <=>
                        (named # {} /\ cs[first].Value = op'.args[2])
      ]_vars

\* C16 witness: the response sets T=v1 and then T=v2; AssertCookieValue("T",
\* "v2") is fatal, because the first cookie named T has the value v1.
C16_Witness ==
    /\ op.name = "AssertCookieValue"
    /\ op.args = <<"T", "v2">>
    /\ op.ret = "fatal"
    /\ ht.requestExecuted
    /\ Cookies(ht.state.Response) = TwoCookies
    /\ ht.t.msg.format = "Expected cookie to have value of %q; got %q"

\* C16 second witness: AssertCookieExists("D") is fatal on that response.
C16_WitnessAbsent ==
    /\ op.name = "AssertCookieExists"
    /\ op.args = <<"D">>
    /\ op.ret = "fatal"
    /\ ht.requestExecuted
    /\ Cookies(ht.state.Response) = TwoCookies

\* C17: AssertCookieDeepEquals(expected) ends at the first of these checks
\* that fails, with that check's message: (1) the request was executed,
\* (2) expected is not nil, (3) expected.Name is not "", (4) State.Response
\* sets a cookie with that name, (5) the first such cookie serializes as
\* expected does; it returns, changing nothing, iff all five hold.
C17_CookieDeepEqualsOrder ==
    [][ (op'.name = "AssertCookieDeepEquals") =>
          LET e     == op'.args[1]
              cs    == Cookies(ht.state.Response)
              named == { i \in 1..Len(cs) : cs[i].Name = e.Name }
              first == cs[CHOOSE i \in named : \A j \in named : i <= j]
              fatal(format) == /\ op'.ret = "fatal"
                               /\ ht'.t.fatalCalled
                               /\ ht'.t.msg.format = format
          IN  IF ~ht.requestExecuted THEN fatal("Request %q was not executed")
              ELSE IF e = Nil THEN fatal("Expected cookie is nil")
              ELSE IF e.Name = "" THEN fatal("Expected cookie cannot have an empty Name")
              ELSE IF named = {} THEN fatal("Expected to find cookie %q")
              ELSE IF CookieString(first) # CookieString(e) THEN fatal("Expected %v; got %v")
              ELSE op'.ret = "returned" /\ ht' = ht
      ]_vars

\* C17 witness: the response sets T=v1 (no path) and T=v2; Path=/p; the
\* expected cookie T=v1; Path=/p passes checks (1) to (4) and fails (5).
C17_Witness ==
    /\ op.name = "AssertCookieDeepEquals"
    /\ op.args = << [Name |-> "T", Value |-> "v1", Path |-> "/p"] >>
    /\ op.ret = "fatal"
    /\ ht.requestExecuted
    /\ Cookies(ht.state.Response) = TwoCookies
    /\ ht.t.msg.format = "Expected %v; got %v"

\* C17 second witness: an expected cookie with an empty name on an executed
\* tester stops at check (3).
C17_WitnessEmptyName ==
    /\ op.name = "AssertCookieDeepEquals"
    /\ op.args[1] # Nil
    /\ op.args[1].Name = ""
    /\ ht.requestExecuted
    /\ ht.t.msg.format = "Expected cookie cannot have an empty Name"

\* C17 third witness: all five checks hold.
C17_WitnessPass ==
    /\ op.name = "AssertCookieDeepEquals"
    /\ op.args = << [Name |-> "T", Value |-> "v1", Path |-> ""] >>
    /\ op.ret = "returned"
    /\ Cookies(ht.state.Response) = TwoCookies

C18_WitnessMismatch ==
    /\ op.name = "AssertBody"
    /\ op.args = << <<"Not equal">> >>
    /\ op.ret = "fatal"
    /\ ht.requestExecuted
    /\ ht.t.msg = [format |-> "Expected %s; got %s", args |-> << <<"Ok">>, <<"Not equal">> >>]

\* C19: AssertStruct(r, p) on an executed tester.  When the body does not
\* decode into r the call is fatal with "Error parsing response json" and
\* does not set State.ResponseResult (it is nil if it was nil).  When it
\* decodes, State.ResponseResult holds the decoded value whether p accepts
\* it or not; the call returns iff p accepts it and is fatal with "Response
\* body was not equal to predicate" otherwise.
C19_AssertStruct ==
    [][ (op'.name = "AssertStruct" /\ ht.requestExecuted) =>
          LET r  == op'.args[1]
              p  == op'.args[2]
              ok == Decodes(ht.state.Response, r)
          IN  /\ op'.ret \in {"returned", "fatal"}
              /\ ~ok =>
                    /\ op'.ret = "fatal"
                    /\ ht'.t.msg.format = "Error parsing response json: %s"
                    /\ ht'.state.ResponseResult = ht.state.ResponseResult
              /\ ok =>
                    /\ ht'.state.ResponseResult # Nil
                    /\ ht'.state.ResponseResult.Value = ht.state.Response.Body.data[4]
                    /\ (op'.ret = "returned") <=> ApplyPredicate(p, ht'.state.ResponseResult)
                    /\ (op'.ret = "fatal") =>
                          ht'.t.msg.format = "Response body was not equal to predicate"
      ]_vars

\* C19 witness: the body {"value": "v1"} decoded into a *testStruct and the
\* predicate returned false: the call is fatal and ResponseResult holds the
\* decoded value.
C19_Witness ==
    /\ op.name = "AssertStruct"
    /\ op.args = << [type |-> "*testStruct", Value |-> ""], "false" >>
    /\ op.ret = "fatal"
    /\ ht.t.msg.format = "Response body was not equal to predicate"
    /\ ht.state.ResponseResult = [type |-> "*testStruct", Value |-> "v1"]

\* C19 second witness: the body "Ok" is not JSON; the call is fatal and
\* ResponseResult is nil.
C19_WitnessDecodeFails ==
    /\ op.name = "AssertStruct"
    /\ op.ret = "fatal"
    /\ ht.requestExecuted
    /\ ht.t.msg.format = "Error parsing response json: %s"
    /\ ht.t.msg.args = <<"invalid character looking for beginning of value">>
    /\ ht.state.ResponseResult = Nil

\* C19 third witness: decoded, predicate true, the call returned.
C19_WitnessPass ==
    /\ op.name = "AssertStruct"
    /\ op.args[2] = "valueIsV1"
    /\ op.ret = "returned"
    /\ ht.state.ResponseResult = [type |-> "*testStruct", Value |-> "v1"]

\* C20: AssertStructDeepEquals(r, expected) on an executed tester.  When the
\* body does not decode into r the call is fatal with "Error parsing response
\* json" and does not set State.ResponseResult.  When it decodes,
\* State.ResponseResult holds the decoded value, and the call returns iff the
\* decoded value has the dynamic type and the field values of expected; it
\* is fatal with "Expected ...; got ..." on any difference.
C20_AssertStructDeepEquals ==
    [][ (op'.name = "AssertStructDeepEquals" /\ ht.requestExecuted) =>
          LET r  == op'.args[1]
              e  == op'.args[2]
              ok == Decodes(ht.state.Response, r)
          IN  /\ op'.ret \in {"returned", "fatal"}
              /\ ~ok =>
                    /\ op'.ret = "fatal"
                    /\ ht'.t.msg.format = "Error parsing response json: %s"
                    /\ ht'.state.ResponseResult = ht.state.ResponseResult
              /\ ok =>
                    /\ ht'.state.ResponseResult # Nil
                    /\ ht'.state.ResponseResult.Value = ht.state.Response.Body.data[4]
                    /\ (op'.ret = "returned") <=>
                          /\ ht'.state.ResponseResult.type = e.type
                          /\ ht'.state.ResponseResult.Value = e.Value
                    /\ (op'.ret = "fatal") => ht'.t.msg.format = "Expected %v; got %v"
      ]_vars

\* C20 witness: the body {"value": "v1"} decoded into a *testStruct, expected
\* is &testStruct{"v2"}: the call is fatal and ResponseResult holds the
\* decoded value.
C20_Witness ==
    /\ op.name = "AssertStructDeepEquals"
    /\ op.args = << [type |-> "*testStruct", Value |-> ""],
                    [type |-> "*testStruct", Value |-> "v2"] >>
    /\ op.ret = "fatal"
    /\ ht.t.msg.format = "Expected %v; got %v"
    /\ ht.state.ResponseResult = [type |-> "*testStruct", Value |-> "v1"]

\* C20 second witness: the same body against expected &testStruct{"v1"}: the
\* call returned.
C20_WitnessPass ==
    /\ op.name = "AssertStructDeepEquals"
    /\ op.args[2] = [type |-> "*testStruct", Value |-> "v1"]
    /\ op.ret = "returned"
    /\ ht.state.ResponseResult = [type |-> "*testStruct", Value |-> "v1"]

\* C20 third witness: a pointer to a channel cannot take the object; the
\* call is fatal at the decode and ResponseResult is nil.
C20_WitnessDecodeFails ==
    /\ op.name = "AssertStructDeepEquals"
    /\ op.args[1].type = "*chan"
    /\ op.ret = "fatal"
    /\ ht.requestExecuted
    /\ ht.t.msg.args = <<"json: cannot unmarshal object into Go value of type chan int">>
    /\ ht.state.ResponseResult = Nil

----------------------------------------------------------------------------
(* C21 - C30 *)

\* C21: for two testers made by two New calls, under every
\* interleaving of the calls of the two goroutines each tester is in the
\* state (State, requestExecuted, failure) it reaches when its own calls
\* run alone, and every call ends as it ends alone.
C21_TestersIndependent ==
    /\ \A i \in {1, 2} : Obj(i) = two.alone[i]
    /\ two.last.ret = two.last.retAlone

\* C21 witness: tester 2 has executed and its AssertStatusCode(200) returned
\* with Values["k"] = "v2", while tester 1, in between, set "k" to "v1" and
\* has a pending request with a cookie, not executed.
C21_Witness ==
    /\ two.last.by = 2
    /\ two.last.name = "AssertStatusCode"
    /\ two.last.ret = "returned"
    /\ Obj(2).requestExecuted
    /\ DOMAIN Obj(2).state.Values = {"k"}
    /\ Obj(2).state.Values["k"] = "v2"
    /\ ~Obj(1).requestExecuted
    /\ Obj(1).state.Response = Nil
    /\ Obj(1).state.Request # Nil
    /\ Obj(1).state.Request.Cookie # <<>>
    /\ DOMAIN Obj(1).state.Values = {"k"}
    /\ Obj(1).state.Values["k"] = "v1"

C22_WitnessServed ==
    /\ op.name = "Execute"
    /\ op.ret = "returned"
    /\ addedCookies = { [Name |-> "C", Value |-> "v1"] }
    /\ op.served.Cookie = << [Name |-> "C", Value |-> "v1"] >>
    /\ op.served.Method = "GET"

\* C23 as claimed: every request served by an Execute carries every cookie
\* the test has added with AddCookie / AddCookieWithState before it.
C23_AddedCookieChained ==
    [][ (op'.name = "Execute" /\ op'.ret = "returned") =>
            \A c \in addedCookies : c \in Range(op'.served.Cookie) ]_vars

\* C24: SetRequestBodyJSON(v) with a value that has a JSON encoding returns
\* with the pending request's body holding that encoding (the request is
\* created when there was none, and is otherwise unchanged); with a value
\* that has none (a channel) the call is fatal with "Error encoding request
\* body" and the tester's State is as before.
C24_SetRequestBodyJSON ==
    [][ (op'.name = "SetRequestBodyJSON") =>
          LET v == op'.args[1]
          IN  IF v.type = "chan"
              THEN /\ op'.ret = "fatal"
                   /\ ht'.t.fatalCalled
                   /\ ht'.t.msg.format = "Error encoding request body: %s"
                   /\ ht'.state = ht.state
              ELSE /\ op'.ret = "returned"
                   /\ ht'.state.Request.Body # Nil
                   /\ ht'.state.Request.Body.data = <<"{", "value", ":", v.Value, "}">>
                   /\ ht'.state.Request =
                         [(IF ht.state.Request = Nil THEN DefaultRequest
                           ELSE ht.state.Request) EXCEPT !.Body = ht'.state.Request.Body]
      ]_vars

\* C24 witness: SetRequestBodyJSON(make(chan ...)) on a pending request with a
\* body is fatal and the body is still the one set before.
C24_Witness ==
    /\ op.name = "SetRequestBodyJSON"
    /\ op.args[1].type = "chan"
    /\ op.ret = "fatal"
    /\ ht.t.msg.format = "Error encoding request body: %s"
    /\ ht.state.Request # Nil
    /\ ht.state.Request.Body # Nil
    /\ ht.state.Request.Body.data = <<"v2">>

\* C24 second witness: the encoding of a struct replaced the body of a
\* pending OPTIONS request.
C24_WitnessEncoded ==
    /\ op.name = "SetRequestBodyJSON"
    /\ op.ret = "returned"
    /\ ht.state.Request.Method = "OPTIONS"
    /\ ht.state.Request.Body.data = JsonBody("v1")

\* the fields of the pending request a mutator is meant to change
OwnFields(name) ==
    CASE name \in {"SetBody", "SetBodyWithState", "SetRequestBodyJSON"} -> {"Body"}
      [] name \in {"AddHeader", "AddHeaderWithState"} -> {"Header"}
      [] name \in {"AddCookie", "AddCookieWithState"} -> {"Cookie"}
      [] OTHER -> {"Method", "URL", "Body"}

\* C25: a mutator that finds no pending request (SetBody, AddHeader and
\* AddCookie included) leaves a pending request that is GET "/" with no body,
\* no header and no cookie, apart from the mutator's own change; a mutator
\* that finds a pending request leaves every field that is not its own as it
\* was.  AddCookie's own change is one more cookie at the end, SetBody's is a
\* body exactly when a reader was given.
C25_LazyDefaultRequest ==
    [][ (op'.name \in BuilderNames /\ op'.ret = "returned") =>
          LET own   == OwnFields(op'.name)
              fresh == ht.state.Request = Nil
              r     == ht'.state.Request
          IN  /\ r # Nil
              /\ fresh =>
                    /\ "Method" \notin own => r.Method = "GET"
                    /\ "URL" \notin own => URLString(r.URL) = <<"/">>
                    /\ "Body" \notin own => r.Body = Nil
                    /\ "Header" \notin own => DOMAIN r.Header = {}
                    /\ "Cookie" \notin own => r.Cookie = <<>>
              /\ ~fresh =>
                    \A f \in {"Method", "URL", "Body", "Header", "Cookie"} \ own :
                        r[f] = ht.state.Request[f]
              /\ own = {"Cookie"} =>
                    \E c \in CookieArg(op'.name, op'.args, ht.state) :
                        r.Cookie = (IF fresh THEN <<>> ELSE ht.state.Request.Cookie) \o <<c>>
              /\ op'.name \in {"SetBody", "SetBodyWithState"} =>
                    ((r.Body = Nil) <=> (ReaderArg(op', ht.state) = Nil))
      ]_vars

\* C25 witness: in a second cycle, SetBody with a reader was the first mutator
\* (GET "/" with that body) and AddCookie then acted on the same request.
C25_Witness ==
    /\ everExecuted
    /\ op.name = "AddCookie"
    /\ op.ret = "returned"
    /\ ht.state.Request # Nil
    /\ ht.state.Request.Method = "GET"
    /\ URLString(ht.state.Request.URL) = <<"/">>
    /\ ht.state.Request.Body # Nil
    /\ ht.state.Request.Body.data = <<"v1">>
    /\ DOMAIN ht.state.Request.Header = {}
    /\ ht.state.Request.Cookie = <<[Name |-> "C", Value |-> "v1"]>>

\* C25 second witness: AddHeader on a pending OPTIONS /get request kept its
\* method and URL.
C25_WitnessSameRequest ==
    /\ op.name = "AddHeader"
    /\ op.ret = "returned"
    /\ ht.state.Request.Method = "OPTIONS"
    /\ URLString(ht.state.Request.URL) = <<"/", "get">>
    /\ HeaderGet(ht.state.Request.Header, "X-H") = "v1"

\* C26: an assertion that passed and is called again with the same arguments,
\* with nothing called in between, passes again.
C26_AssertionRepeatable ==
    [][ (/\ op.name \in AssertionNames
         /\ op.ret = "returned"
         /\ op'.name = op.name
         /\ op'.args = op.args) => op'.ret = "returned" ]_vars

\* the expected value the caller hands to an assertion that compares
ExpectedArg(c) ==
    CASE c.name \in {"AssertHeader", "AssertCookieValue", "AssertStructDeepEquals"} -> c.args[2]
      [] OTHER -> c.args[1]

\* C27: when a comparing assertion is fatal with an "Expected ...; got ..."
\* message, the value in the expected position is the one the caller passed
\* and the value in the got position is another one (the response's).
C27_ExpectedThenGot ==
    [][ (/\ op'.name \in {"AssertStatus", "AssertStatusCode", "AssertHeader", "AssertBody",
                          "AssertCookieValue", "AssertCookieDeepEquals",
                          "AssertStructDeepEquals"}
         /\ op'.ret = "fatal"
         /\ Len(ht'.t.msg.args) = 2) =>
            /\ ht'.t.msg.args[1] = ExpectedArg(op')
            /\ ht'.t.msg.args[2] # ExpectedArg(op') ]_vars

\* C28: after AddHeader(k, v1) directly followed by AddHeader(k, v2) the
\* pending request carries both v1 and v2 under k.
C28_AddHeaderAppends ==
    [][ (/\ op.name = "AddHeader"
         /\ op.ret = "returned"
         /\ op'.name = "AddHeader"
         /\ op'.ret = "returned"
         /\ CanonicalMIMEHeaderKey(op'.args[1]) = CanonicalMIMEHeaderKey(op.args[1])) =>
            {op.args[2], op'.args[2]} \subseteq
                Range(ht'.state.Request.Header[CanonicalMIMEHeaderKey(op'.args[1])]) ]_vars

\* C29: no assertion, passing or fatal (the "was not executed" fatal
\* included), changes State.Request.
C29_AssertionsLeaveRequest ==
    [][ (op'.name \in AssertionNames) => ht'.state.Request = ht.state.Request ]_vars

\* C30: a NewRequest (or shorthand) that is fatal on its URL leaves
\* State.Request as it was before the call.
C30_FailedNewRequestLeavesRequest ==
    [][ (op'.name \in NewRequestNames /\ op'.ret = "fatal") =>
            ht'.state.Request = ht.state.Request ]_vars

----------------------------------------------------------------------------
(* C31 - C39 *)

\* C31: every Execute call invokes the handler exactly once and no other
\* call invokes it, so the invocations number as many as the Execute calls.
C31_HandlerOncePerExecute ==
    [][ op'.serves = (IF op'.name = "Execute" THEN 1 ELSE 0) ]_vars

\* C32: Execute leaves no pending request; an Execute that finds none serves
\* GET "/" with no body and no header, whatever the cycle before had set; and
\* the first mutator after an Execute starts from those defaults in every
\* field that is not its own.
C32_RequestSingleUse ==
    [][ LET default == [Method |-> "GET", URL |-> [Path |-> <<"/">>, RawQuery |-> <<>>],
                        Body |-> Nil, Header |-> EmptyHeader]
        IN  /\ (op'.name = "Execute" /\ op'.ret = "returned") =>
                  /\ ht'.state.Request = Nil
                  /\ ht.state.Request = Nil =>
                        \A f \in DOMAIN default : op'.served[f] = default[f]
            /\ (op.name = "Execute" /\ op'.name \in BuilderNames /\ op'.ret = "returned") =>
                  \A f \in (DOMAIN default) \ OwnFields(op'.name) :
                      ht'.state.Request[f] = default[f]
      ]_vars

\* C32 witness: the Execute before served a request whose method, URL, body
\* and header had all been set; this one, with nothing set again, served GET "/" without
\* body or header.
C32_Witness ==
    /\ op.name = "Execute"
    /\ op.ret = "returned"
    /\ servedLog.prev # Nil
    /\ servedLog.prev.allSet
    /\ op.served.Method = "GET"
    /\ URLString(op.served.URL) = <<"/">>
    /\ op.served.Body = Nil
    /\ DOMAIN op.served.Header = {}
    /\ ht.state.Request = Nil

\* C33: a state-aware request call whose closure builds the URL from
\* State.ResponseResult gets the value a structured assertion stored, when it
\* is the first mutator after that assertion (no pending request yet), and
\* gets nothing (nil) once a mutator of the new cycle has run (a pending
\* request exists).
C33_ResultVisibleToFirstClosure ==
    [][ LET f    == IF op'.name \in {"GetWithState", "DeleteWithState"}
                    THEN op'.args[1] ELSE op'.args[1].url
            seen == ht'.state.Request.URL.Path[2]
        IN  (/\ op'.name \in NewRequestNames
             /\ op'.name \notin {"NewRequest", "Get", "Post", "Put", "Patch", "Delete"}
             /\ f = "urlFromResult"
             /\ op'.ret = "returned") =>
                /\ (ht.state.Request = Nil /\ ht.state.ResponseResult # Nil) =>
                      /\ seen = ht.state.ResponseResult.Value
                      /\ seen # "<nil>"
                /\ (ht.state.Request # Nil) => seen = "<nil>"
                /\ ht'.state.ResponseResult = Nil
      ]_vars

\* C33 witness: PostWithState, the first mutator after AssertStruct had stored
\* the decoded value "v1", built the URL "/v1" from it; ResponseResult is nil
\* after the call.
C33_Witness ==
    /\ op.name = "PostWithState"
    /\ op.args[1].url = "urlFromResult"
    /\ op.ret = "returned"
    /\ ht.state.Request.URL.Path = <<"/", "v1">>
    /\ ht.state.ResponseResult = Nil
    /\ ht.state.Response # Nil
    /\ ht.state.Response.Body.data = <<>>

\* C33 second witness: the body of the last response was decoded, AddHeader
\* then began the new cycle, and the closure of GetWithState found no result.
C33_WitnessAbsent ==
    /\ op.name = "GetWithState"
    /\ op.args = <<"urlFromResult">>
    /\ op.ret = "returned"
    /\ ht.state.Request.URL.Path = <<"/", "<nil>">>
    /\ DOMAIN ht.state.Request.Header = {"X-H"}
    /\ ht.state.Response # Nil
    /\ ht.state.Response.Body.data = <<>>

\* C34: after an AssertBody call on an executed request, the body of the last
\* response has been closed.
C34_AssertBodyClosesBody ==
    [][ (op'.name = "AssertBody" /\ ht.requestExecuted /\ op'.ret # "panic") =>
            ht'.state.Response.Body.closed ]_vars

\* C35: in every state, requestExecuted implies that there is no pending
\* request and that there is a response; and a stored ResponseResult implies
\* requestExecuted.
C35_ExecutedInvariants ==
    /\ ht.requestExecuted => (ht.state.Request = Nil /\ ht.state.Response # Nil)
    /\ ht.state.ResponseResult # Nil => ht.requestExecuted

\* C35 witness: after Execute, AssertStructDeepEquals stored the decoded body;
\* the tester is executed, has a response and no pending request.
C35_Witness ==
    /\ op.name = "AssertStructDeepEquals"
    /\ op.ret = "returned"
    /\ ht.requestExecuted
    /\ ht.state.ResponseResult # Nil
    /\ ht.state.ResponseResult.Value = "v1"
    /\ ht.state.Request = Nil
    /\ ht.state.Response # Nil

\* C35 second witness: a mutator began a new cycle after the response's body
\* had been decoded; the tester is not executed and holds no result.
C35_WitnessNewCycle ==
    /\ op.name = "AddCookie"
    /\ op.ret = "returned"
    /\ ~ht.requestExecuted
    /\ ht.state.ResponseResult = Nil
    /\ ht.state.Request # Nil
    /\ ht.state.Response # Nil
    /\ ht.state.Response.Body.data = <<>>
    /\ ht.state.Response.StatusCode = 200

\* C36: the request an Execute serves carries exactly the cookies pending on
\* it, which are cookies the test added, and the cookies the previous
\* response set; a cookie that the request served before carried, that the
\* previous response did not set and that the test never added, is not on it.
C36_CookiesOneHop ==
    [][ (op'.name = "Execute" /\ op'.ret = "returned") =>
            /\ Range(op'.served.Cookie) =
                  Range(PendingCookieSeq(ht)) \cup ResponseCookies(ht)
            /\ inputs.recordsCookies => Range(PendingCookieSeq(ht)) \subseteq addedCookies
            /\ servedLog.last # Nil =>
                  \A c \in Range(servedLog.last.Cookie) \ (ResponseCookies(ht) \cup addedCookies) :
                      c \notin Range(op'.served.Cookie)
      ]_vars

\* C36 witness: the test added no cookie; the request of the Execute before
\* carried C=v1 from the response before it; the response to that request set
\* no cookie, and this Execute served a request without cookies.
C36_Witness ==
    /\ op.name = "Execute"
    /\ op.ret = "returned"
    /\ addedCookies = {}
    /\ servedLog.prev # Nil
    /\ servedLog.prev.Cookie = << [Name |-> "C", Value |-> "v1"] >>
    /\ op.served.Cookie = <<>>

\* C37: NewRequest or a method shorthand that returns on a pending request
\* leaves its headers and cookies as they were and sets the method, the URL
\* and the body (none when no reader is given) from its arguments.
C37_NewRequestKeepsHeadersCookies ==
    [][ (op'.name \in NewRequestNames /\ op'.ret = "returned" /\ ht.state.Request # Nil) =>
            /\ ht'.state.Request.Header = ht.state.Request.Header
            /\ ht'.state.Request.Cookie = ht.state.Request.Cookie
            /\ ht'.state.Request.Method = MethodArg(op')
            /\ URLString(ht'.state.Request.URL) = UrlArg(op', ht.state)
            /\ (ht'.state.Request.Body = Nil) <=> (ReaderArg(op', ht.state) = Nil)
      ]_vars

\* C37 witness: Delete("/get?q") on a pending request that had the header
\* X-H, the cookie C=v1 and a body: both are still there, the body is gone.
C37_Witness ==
    /\ op.name = "Delete"
    /\ op.ret = "returned"
    /\ ht.state.Request.Method = "DELETE"
    /\ URLString(ht.state.Request.URL) = <<"/", "get", "?", "q">>
    /\ ht.state.Request.Body = Nil
    /\ HeaderGet(ht.state.Request.Header, "X-H") = "v1"
    /\ ht.state.Request.Cookie = << [Name |-> "C", Value |-> "v1"] >>

\* C38: SetValue and SetValueWithState return and leave everything but
\* Values as it was (pending request, response, ResponseResult, the executed
\* flag), and every key but the written one; so an assertion that directly
\* follows one on an executed tester is not stopped by the executed-check.
C38_SetValueFrame ==
    [][ /\ (op'.name \in {"SetValue", "SetValueWithState"}) =>
              LET key == IF op'.name = "SetValue" THEN op'.args[1]
                         ELSE ApplyValueFn(op'.args[1], ht.state)[1]
              IN  /\ op'.ret = "returned"
                  /\ ht'.state.Request = ht.state.Request
                  /\ ht'.state.Response = ht.state.Response
                  /\ ht'.state.ResponseResult = ht.state.ResponseResult
                  /\ ht'.requestExecuted = ht.requestExecuted
                  /\ \A k \in (DOMAIN ht.state.Values) \ {key} :
                        /\ k \in DOMAIN ht'.state.Values
                        /\ ht'.state.Values[k] = ht.state.Values[k]
        /\ (/\ op.name \in {"SetValue", "SetValueWithState"}
            /\ ht.requestExecuted
            /\ op'.name \in AssertionNames
            /\ op'.ret = "fatal") =>
              ht'.t.msg.format # "Request %q was not executed"
      ]_vars

\* C38 witness: SetValue after Execute and a structured assertion: the tester
\* is still executed, still holds the decoded result and the response, and
\* has no pending request.
C38_Witness ==
    /\ op.name = "SetValue"
    /\ op.ret = "returned"
    /\ ht.requestExecuted
    /\ ht.state.ResponseResult # Nil
    /\ ht.state.Response # Nil
    /\ ht.state.Request = Nil
    /\ "k" \in DOMAIN ht.state.Values

\* C38 second witness: an assertion on the executed response passed after
\* SetValueWithState had copied the decoded value into Values["id"].
C38_WitnessAssertAfter ==
    /\ op.name = "AssertStatusCode"
    /\ op.ret = "returned"
    /\ "id" \in DOMAIN ht.state.Values
    /\ ht.state.Values["id"] = "v2"
    /\ ht.state.ResponseResult # Nil
    /\ ht.state.Request = Nil

\* C39: SetRequestBodyJSON with a value that cannot be encoded is fatal, and
\* a fatal SetRequestBodyJSON leaves State.Request, State.Response,
\* State.ResponseResult, State.Values and requestExecuted as they were.
C39_FailedJSONBodyTouchesNothing ==
    [][ (op'.name = "SetRequestBodyJSON") =>
            /\ (op'.args[1].type = "chan") => op'.ret = "fatal"
            /\ (op'.ret = "fatal") =>
                  /\ ht'.state.Request = ht.state.Request
                  /\ ht'.state.Response = ht.state.Response
                  /\ ht'.state.ResponseResult = ht.state.ResponseResult
                  /\ ht'.state.Values = ht.state.Values
                  /\ ht'.requestExecuted = ht.requestExecuted
      ]_vars

\* C39 witness: SetRequestBodyJSON(make(chan ...)) on an executed tester: it
\* is still executed, with its response and without a pending request.
C39_Witness ==
    /\ op.name = "SetRequestBodyJSON"
    /\ op.ret = "fatal"
    /\ ht.requestExecuted
    /\ ht.state.Request = Nil
    /\ ht.state.Response # Nil
    /\ "k" \in DOMAIN ht.state.Values

====
